---- MODULE Spec2Model ----
(***************************************************************************)
(* A model of the GATT server core: the GattDatabase schema                *)
(* (system/rust/src/gatt/server/gatt_database.rs), its per-connection      *)
(* AttDatabaseImpl view, and the GattModule that owns servers and bearers  *)
(* (system/rust/src/gatt/server.rs).                                       *)
(***************************************************************************)
EXTENDS Integers, Sequences, FiniteSets, TLC

(***************************************************************************)
(* Bounds of the model.                                                    *)
(***************************************************************************)
\* Largest handle an input may name; inputs draw handles from 1..MaxHandle.
MaxHandle == 4
\* Most characteristics in one service description.
MaxChars == 2
\* Most descriptors on one characteristic.
MaxDescs == 1
\* Most attribute records one service description may build.
MaxRecords == 5
\* The most datastore calls in flight at once.
MaxPending == 1
\* Largest handle of the read and write runs.
MaxAttHandle == 6
\* The most servers, transport indexes, and GattDatabase objects ever created.
MaxServers == 2
MaxTransports == 1
MaxDbs == 2
\* The handles applications use above the built-in ones.
MaxAppHandles == 3

(***************************************************************************)
(* Program constants.                                                      *)
(***************************************************************************)
\* AttHandle wraps a u16: handle arithmetic is modulo 2^16.
HandleModulus == 65536
PRIMARY_SERVICE_DECLARATION_UUID == 10240
CHARACTERISTIC_UUID == 10243
SERVICE_TYPE == 4660
CHARACTERISTIC_TYPE == 22136
DESCRIPTOR_TYPE == 39612
CONN_ID == 1
GATT_SERVICE_UUID == 6145
SERVICE_CHANGE_UUID == 10757

READABLE == "READABLE"
WRITABLE == "WRITABLE"
INDICATE == "INDICATE"

VARIABLES
    gatt_dbs,     \* the GattDatabase objects in existence: id -> schema.attributes
    views,        \* the AttDatabaseImpl views handed out by get_att_database
    pending,      \* the datastore calls a suspended read or write is awaiting
    databases,    \* GattModule.databases: server id -> its GattDatabase
    connections,  \* GattModule.connections: transport index -> GattConnection
    next_db,      \* the number of GattDatabase objects created so far, plus one
    last,         \* the last operation and what it returned
    live,         \* history: the services added successfully and not removed since
    wf,           \* history: every call on the schema so far was well-formed
    closed,       \* history: the databases of servers closed by close_gatt_server
    next_id,      \* DisconnectWatcher.next_id
    callbacks,    \* DisconnectWatcher.callbacks: bus address -> id -> callback
    lock,         \* the state of the mutex around DisconnectWatcher.callbacks
    caller,       \* where the thread calling add and remove stands
    handler,      \* where the NameOwnerChanged handler stands
    told,         \* what the last watcher operation returned and called
    issued        \* history: the ids that add has returned

schema_vars == <<gatt_dbs, live, wf>>
module_vars == <<databases, connections, next_db, closed>>
watcher_vars == <<next_id, callbacks, lock, caller, handler, told, issued>>
vars == <<gatt_dbs, views, pending, databases, connections, next_db, last, live,
          wf, closed, watcher_vars>>

(***************************************************************************)
(* Values.                                                                 *)
(***************************************************************************)
\* An empty BTreeMap / HashMap.
EmptyMap == << >>

\* AttPermissions::readable(), writable(), indicate().
readable(permissions) == READABLE \in permissions
writable(permissions) == WRITABLE \in permissions
indicate(permissions) == INDICATE \in permissions

\* bool.into() for a one-bit property field.
Bit(b) == IF b THEN 1 ELSE 0

\* The keys of a BTreeMap in iteration order (ascending).
RECURSIVE Ascending(_)
Ascending(S) ==
    IF S = {} THEN << >>
    ELSE LET m == CHOOSE x \in S : \A y \in S : x <= y
         IN  <<m>> \o Ascending(S \ {m})

\* BTreeMap::values(): the records in ascending key order.
Values(map) ==
    LET keys == Ascending(DOMAIN map)
    IN  [i \in 1..Len(keys) |-> map[keys[i]]]

\* BTreeMap::insert for each record of a sequence, in order: a later record
\* replaces an earlier one with the same handle.
RECURSIVE InsertAll(_, _)
InsertAll(map, recs) ==
    IF recs = << >> THEN map
    ELSE LET r == Head(recs)
         IN  InsertAll((r.attribute.handle :> r) @@ map, Tail(recs))

(***************************************************************************)
(* GattDatabase::add_service_with_handles.                                 *)
(***************************************************************************)
\* The service declaration record.
ServiceDeclaration(service) ==
    [attribute |-> [handle |-> service.handle,
                    type_ |-> PRIMARY_SERVICE_DECLARATION_UUID,
                    permissions |-> {READABLE}],
     value |-> [kind |-> "Static",
                data |-> [decl |-> "GattServiceDeclarationValue",
                          uuid |-> service.type_]]]

\* The declaration handle: characteristic.handle.0 - 1 in u16, when it wraps.
DeclarationHandle(characteristic) ==
    (characteristic.handle - 1) % HandleModulus

\* Mutant: the declaration is given the permissions of the characteristic.
CharacteristicDeclaration_app_permissions(characteristic) ==
    [attribute |-> [handle |-> DeclarationHandle(characteristic),
                    type_ |-> CHARACTERISTIC_UUID,
                    permissions |-> characteristic.permissions],
     value |-> [kind |-> "Static",
                data |-> [decl |-> "GattCharacteristicDeclarationValue",
                          properties |->
                              [broadcast |-> 0,
                               read |-> Bit(readable(characteristic.permissions)),
                               write_without_response |-> 0,
                               write |-> Bit(writable(characteristic.permissions)),
                               notify |-> 0,
                               indicate |-> Bit(indicate(characteristic.permissions)),
                               authenticated_signed_writes |-> 0,
                               extended_properties |-> 0],
                          handle |-> characteristic.handle,
                          uuid |-> characteristic.type_]]]

\* Mutant: the indicate property is announced as notify.
CharacteristicDeclaration_notify(characteristic) ==
    [attribute |-> [handle |-> DeclarationHandle(characteristic),
                    type_ |-> CHARACTERISTIC_UUID,
                    permissions |-> {READABLE}],
     value |-> [kind |-> "Static",
                data |-> [decl |-> "GattCharacteristicDeclarationValue",
                          properties |->
                              [broadcast |-> 0,
                               read |-> Bit(readable(characteristic.permissions)),
                               write_without_response |-> 0,
                               write |-> Bit(writable(characteristic.permissions)),
                               notify |-> Bit(indicate(characteristic.permissions)),
                               indicate |-> 0,
                               authenticated_signed_writes |-> 0,
                               extended_properties |-> 0],
                          handle |-> characteristic.handle,
                          uuid |-> characteristic.type_]]]

\* The characteristic declaration record.
CharacteristicDeclaration(characteristic) ==
    [attribute |-> [handle |-> DeclarationHandle(characteristic),
                    type_ |-> CHARACTERISTIC_UUID,
                    permissions |-> {READABLE}],
     value |-> [kind |-> "Static",
                data |-> [decl |-> "GattCharacteristicDeclarationValue",
                          properties |->
                              [broadcast |-> 0,
                               read |-> Bit(readable(characteristic.permissions)),
                               write_without_response |-> 0,
                               write |-> Bit(writable(characteristic.permissions)),
                               notify |-> 0,
                               indicate |-> Bit(indicate(characteristic.permissions)),
                               authenticated_signed_writes |-> 0,
                               extended_properties |-> 0],
                          handle |-> characteristic.handle,
                          uuid |-> characteristic.type_]]]

\* Mutant: every characteristic value is bound to the first datastore.
CharacteristicValue_first_datastore(characteristic, datastore) ==
    [attribute |-> [handle |-> characteristic.handle,
                    type_ |-> characteristic.type_,
                    permissions |-> characteristic.permissions],
     value |-> [kind |-> "DynamicCharacteristic", datastore |-> "ds1"]]

\* The characteristic value record.
CharacteristicValue(characteristic, datastore) ==
    [attribute |-> [handle |-> characteristic.handle,
                    type_ |-> characteristic.type_,
                    permissions |-> characteristic.permissions],
     value |-> [kind |-> "DynamicCharacteristic", datastore |-> datastore]]

\* The descriptor records of one characteristic, in input order.
DescriptorRecords(descriptors, datastore) ==
    [i \in 1..Len(descriptors) |->
        [attribute |-> [handle |-> descriptors[i].handle,
                        type_ |-> descriptors[i].type_,
                        permissions |-> descriptors[i].permissions],
         value |-> [kind |-> "DynamicDescriptor", datastore |-> datastore]]]

\* The records the loop over service.characteristics passes to add_attribute.
RECURSIVE CharacteristicRecords(_, _)
CharacteristicRecords(characteristics, datastore) ==
    IF characteristics = << >> THEN << >>
    ELSE LET characteristic == Head(characteristics)
         IN  <<CharacteristicDeclaration(characteristic),
               CharacteristicValue(characteristic, datastore)>>
             \o DescriptorRecords(characteristic.descriptors, datastore)
             \o CharacteristicRecords(Tail(characteristics), datastore)

\* Mutant: the service declaration is not built.
BuiltRecords_no_service_declaration(service, datastore) ==
    CharacteristicRecords(service.characteristics, datastore)

\* Every call of add_attribute, in order.
BuiltRecords(service, datastore) ==
    <<ServiceDeclaration(service)>>
        \o CharacteristicRecords(service.characteristics, datastore)

\* characteristic.handle.0 - 1 underflows for some characteristic.
Underflows(service) ==
    \E i \in DOMAIN service.characteristics :
        service.characteristics[i].handle = 0

\* Mutant: the new records are merged before the overlap check, so a rejected
\* service leaves its records behind.
add_service_merge_first(static_attributes, service, datastore, overflow_checks) ==
    LET recs == BuiltRecords(service, datastore)
        attributes == InsertAll(EmptyMap, recs)
        attribute_cnt == Len(recs)
    IN  IF overflow_checks /\ Underflows(service)
        THEN [res |-> "Panic", attributes |-> static_attributes]
        ELSE IF \E handle \in DOMAIN attributes : handle \in DOMAIN static_attributes
        THEN [res |-> "Err", attributes |-> static_attributes @@ attributes]
        ELSE IF Cardinality(DOMAIN attributes) # attribute_cnt
        THEN [res |-> "Err", attributes |-> static_attributes @@ attributes]
        ELSE [res |-> "Ok", attributes |-> attributes @@ static_attributes]

\* Mutant: the loop that looks each new handle up in the live table is
\* missing.
add_service_no_overlap_check(static_attributes, service, datastore, overflow_checks) ==
    LET recs == BuiltRecords(service, datastore)
        attributes == InsertAll(EmptyMap, recs)
        attribute_cnt == Len(recs)
    IN  IF overflow_checks /\ Underflows(service)
        THEN [res |-> "Panic", attributes |-> static_attributes]
        ELSE IF Cardinality(DOMAIN attributes) # attribute_cnt
        THEN [res |-> "Err", attributes |-> static_attributes]
        ELSE [res |-> "Ok", attributes |-> attributes @@ static_attributes]

\* Mutant: the comparison of the map's length with attribute_cnt is missing.
add_service_no_count_check(static_attributes, service, datastore, overflow_checks) ==
    LET recs == BuiltRecords(service, datastore)
        attributes == InsertAll(EmptyMap, recs)
    IN  IF overflow_checks /\ Underflows(service)
        THEN [res |-> "Panic", attributes |-> static_attributes]
        ELSE IF \E handle \in DOMAIN attributes : handle \in DOMAIN static_attributes
        THEN [res |-> "Err", attributes |-> static_attributes]
        ELSE [res |-> "Ok", attributes |-> attributes @@ static_attributes]

\* The call on a schema whose table is static_attributes. With overflow
\* checks compiled in, the u16 subtraction panics on underflow; without them
\* it wraps. The panic unwinds before the schema is borrowed.
add_service_with_handles(static_attributes, service, datastore, overflow_checks) ==
    LET recs == BuiltRecords(service, datastore)
        attributes == InsertAll(EmptyMap, recs)
        attribute_cnt == Len(recs)
    IN  IF overflow_checks /\ Underflows(service)
        THEN [res |-> "Panic", attributes |-> static_attributes]
        ELSE IF \E handle \in DOMAIN attributes : handle \in DOMAIN static_attributes
        THEN [res |-> "Err", attributes |-> static_attributes]
        ELSE IF Cardinality(DOMAIN attributes) # attribute_cnt
        THEN [res |-> "Err", attributes |-> static_attributes]
        ELSE [res |-> "Ok", attributes |-> attributes @@ static_attributes]

(***************************************************************************)
(* GattDatabase::remove_service_at_handle.                                 *)
(***************************************************************************)
\* Mutant: the search stops at the first record above service_handle,
\* whatever its type.
RECURSIVE FindNextService_any_type(_, _)
FindNextService_any_type(values, service_handle) ==
    IF values = << >> THEN {}
    ELSE IF Head(values).attribute.handle > service_handle
         THEN {Head(values).attribute.handle}
         ELSE FindNextService_any_type(Tail(values), service_handle)

\* values().find(..).map(..): the handle of the first record, in ascending
\* order, above service_handle whose type is the primary service declaration;
\* an Option, as a set of at most one handle.
RECURSIVE FindNextService(_, _)
FindNextService(values, service_handle) ==
    IF values = << >> THEN {}
    ELSE IF /\ Head(values).attribute.handle > service_handle
            /\ Head(values).attribute.type_ = PRIMARY_SERVICE_DECLARATION_UUID
         THEN {Head(values).attribute.handle}
         ELSE FindNextService(Tail(values), service_handle)

\* Mutant: the range runs through the next service's declaration.
Retained_through_next(static_attributes, service_handle, next_service_handle) ==
    {curr_handle \in DOMAIN static_attributes :
        ~(/\ service_handle <= curr_handle
          /\ \A x \in next_service_handle : curr_handle <= x)}

\* Mutant: the range starts above service_handle.
Retained_above_start(static_attributes, service_handle, next_service_handle) ==
    {curr_handle \in DOMAIN static_attributes :
        ~(/\ service_handle < curr_handle
          /\ \A x \in next_service_handle : curr_handle < x)}

\* retain(..): what stays in the table.
Retained(static_attributes, service_handle, next_service_handle) ==
    {curr_handle \in DOMAIN static_attributes :
        ~(/\ service_handle <= curr_handle
          /\ \A x \in next_service_handle : curr_handle < x)}

\* Mutant: an unknown handle is an error.
remove_service_not_found(static_attributes, service_handle) ==
    LET next_service_handle ==
            FindNextService(Values(static_attributes), service_handle)
        kept == Retained(static_attributes, service_handle, next_service_handle)
    IN  IF service_handle \notin DOMAIN static_attributes
        THEN [res |-> "Err", attributes |-> static_attributes]
        ELSE [res |-> "Ok",
              attributes |-> [h \in kept |-> static_attributes[h]]]

remove_service_at_handle(static_attributes, service_handle) ==
    LET next_service_handle ==
            FindNextService(Values(static_attributes), service_handle)
        kept == Retained(static_attributes, service_handle, next_service_handle)
    IN  [res |-> "Ok",
         attributes |-> [h \in kept |-> static_attributes[h]]]

(***************************************************************************)
(* AttDatabaseImpl: the per-connection view.                               *)
(***************************************************************************)
\* WeakBox::with: the database behind a weak reference, if it still exists;
\* an Option, as a set of at most one table.
Upgrade(dbs, gatt_db) ==
    IF gatt_db \in DOMAIN dbs THEN {dbs[gatt_db]} ELSE {}

\* SharedBox<GattDatabase>::get_att_database.
get_att_database(gatt_db, conn_id) ==
    [gatt_db |-> gatt_db, conn_id |-> conn_id]

\* Mutant: the view lists the table as it was when the view was made from a
\* new database: empty.
list_attributes_stale(dbs, view) ==
    << >>

\* AttDatabaseImpl::list_attributes.
list_attributes(dbs, view) ==
    LET db == Upgrade(dbs, view.gatt_db)
    IN  IF db = {} THEN << >>
        ELSE LET values == Values(CHOOSE attributes \in db : TRUE)
             IN  [i \in 1..Len(values) |-> values[i].attribute]

\* What a read or a write comes to before any datastore answers: an error
\* code, a value, or the datastore calls it awaits.
AttErr(code) == [res |-> "Err", code |-> code, calls |-> << >>]
AttOk(data) == [res |-> "Ok", data |-> data, calls |-> << >>]
AttAwait(call) == [res |-> "Await", calls |-> <<call>>]

\* Mutant: the Ref of the schema outlives the closure and is alive at the
\* await.
RefsAtAwait_services == {"services"}

\* The Refs of the schema a read or a write holds when it awaits its
\* datastore: none.  `services`, the Ref of gatt_db.schema.borrow(), is a
\* local of the closure given to WeakBox::with and is dropped when the
\* closure returns, before the match on the value cloned out of it.
RefsAtAwait == {}

\* datastore.read(conn_id, handle, backing_type) and datastore.write(conn_id,
\* handle, backing_type, data), as the datastore receives them.
DatastoreRead(datastore, conn_id, handle, backing_type) ==
    [datastore |-> datastore, op |-> "read", conn_id |-> conn_id,
     handle |-> handle, backing_type |-> backing_type, data |-> "none"]

DatastoreWrite(datastore, conn_id, handle, backing_type, data) ==
    [datastore |-> datastore, op |-> "write", conn_id |-> conn_id,
     handle |-> handle, backing_type |-> backing_type, data |-> data]

\* Mutant: a missing attribute is read from the datastore of the test.
read_attribute_miss_delegates(dbs, view, handle) ==
    LET db == Upgrade(dbs, view.gatt_db)
    IN  IF db = {} THEN AttErr("INVALID_HANDLE")
        ELSE LET attributes == CHOOSE a \in db : TRUE
             IN  IF handle \notin DOMAIN attributes
                 THEN AttAwait(DatastoreRead("ds1", view.conn_id, handle,
                                             "Characteristic"))
                 ELSE LET attr == attributes[handle]
                      IN  IF ~readable(attr.attribute.permissions)
                          THEN AttErr("READ_NOT_PERMITTED")
                          ELSE IF attr.value.kind = "Static"
                          THEN AttOk(attr.value.data)
                          ELSE IF attr.value.kind = "DynamicCharacteristic"
                          THEN AttAwait(DatastoreRead(attr.value.datastore,
                                    view.conn_id, handle, "Characteristic"))
                          ELSE AttAwait(DatastoreRead(attr.value.datastore,
                                    view.conn_id, handle, "Descriptor"))

\* Mutant: a static value is fetched from a datastore like a dynamic one.
read_attribute_static_delegates(dbs, view, handle) ==
    LET db == Upgrade(dbs, view.gatt_db)
    IN  IF db = {} THEN AttErr("INVALID_HANDLE")
        ELSE LET attributes == CHOOSE a \in db : TRUE
             IN  IF handle \notin DOMAIN attributes
                 THEN AttErr("INVALID_HANDLE")
                 ELSE LET attr == attributes[handle]
                      IN  IF ~readable(attr.attribute.permissions)
                          THEN AttErr("READ_NOT_PERMITTED")
                          ELSE IF attr.value.kind = "DynamicDescriptor"
                          THEN AttAwait(DatastoreRead(attr.value.datastore,
                                    view.conn_id, handle, "Descriptor"))
                          ELSE AttAwait(DatastoreRead("ds1",
                                    view.conn_id, handle, "Characteristic"))

\* AttDatabaseImpl::read_attribute, up to the datastore's answer.
read_attribute(dbs, view, handle) ==
    LET db == Upgrade(dbs, view.gatt_db)
    IN  IF db = {} THEN AttErr("INVALID_HANDLE")
        ELSE LET attributes == CHOOSE a \in db : TRUE
             IN  IF handle \notin DOMAIN attributes
                 THEN AttErr("INVALID_HANDLE")
                 ELSE LET attr == attributes[handle]
                      IN  IF ~readable(attr.attribute.permissions)
                          THEN AttErr("READ_NOT_PERMITTED")
                          ELSE IF attr.value.kind = "Static"
                          THEN AttOk(attr.value.data)
                          ELSE IF attr.value.kind = "DynamicCharacteristic"
                          THEN AttAwait(DatastoreRead(attr.value.datastore,
                                    view.conn_id, handle, "Characteristic"))
                          ELSE AttAwait(DatastoreRead(attr.value.datastore,
                                    view.conn_id, handle, "Descriptor"))

\* Mutant: a write to a static attribute goes to the datastore of the test.
write_attribute_static_delegates(dbs, view, handle, data) ==
    LET db == Upgrade(dbs, view.gatt_db)
    IN  IF db = {} THEN AttErr("INVALID_HANDLE")
        ELSE LET attributes == CHOOSE a \in db : TRUE
             IN  IF handle \notin DOMAIN attributes
                 THEN AttErr("INVALID_HANDLE")
                 ELSE LET attr == attributes[handle]
                      IN  IF attr.value.kind = "Static"
                          THEN AttAwait(DatastoreWrite("ds1", view.conn_id,
                                    handle, "Characteristic", data))
                          ELSE IF ~writable(attr.attribute.permissions)
                          THEN AttErr("WRITE_NOT_PERMITTED")
                          ELSE IF attr.value.kind = "DynamicCharacteristic"
                          THEN AttAwait(DatastoreWrite(attr.value.datastore,
                                    view.conn_id, handle, "Characteristic", data))
                          ELSE AttAwait(DatastoreWrite(attr.value.datastore,
                                    view.conn_id, handle, "Descriptor", data))

\* Mutant: the write skips the permission check.
write_attribute_unchecked(dbs, view, handle, data) ==
    LET db == Upgrade(dbs, view.gatt_db)
    IN  IF db = {} THEN AttErr("INVALID_HANDLE")
        ELSE LET attributes == CHOOSE a \in db : TRUE
             IN  IF handle \notin DOMAIN attributes
                 THEN AttErr("INVALID_HANDLE")
                 ELSE LET attr == attributes[handle]
                      IN  IF attr.value.kind = "Static"
                          THEN AttErr("WRITE_NOT_PERMITTED")
                          ELSE IF attr.value.kind = "DynamicCharacteristic"
                          THEN AttAwait(DatastoreWrite(attr.value.datastore,
                                    view.conn_id, handle, "Characteristic", data))
                          ELSE AttAwait(DatastoreWrite(attr.value.datastore,
                                    view.conn_id, handle, "Descriptor", data))

\* AttDatabaseImpl::write_attribute, up to the datastore's answer.
write_attribute(dbs, view, handle, data) ==
    LET db == Upgrade(dbs, view.gatt_db)
    IN  IF db = {} THEN AttErr("INVALID_HANDLE")
        ELSE LET attributes == CHOOSE a \in db : TRUE
             IN  IF handle \notin DOMAIN attributes
                 THEN AttErr("INVALID_HANDLE")
                 ELSE LET attr == attributes[handle]
                      IN  IF ~writable(attr.attribute.permissions)
                          THEN AttErr("WRITE_NOT_PERMITTED")
                          ELSE IF attr.value.kind = "Static"
                          THEN AttErr("WRITE_NOT_PERMITTED")
                          ELSE IF attr.value.kind = "DynamicCharacteristic"
                          THEN AttAwait(DatastoreWrite(attr.value.datastore,
                                    view.conn_id, handle, "Characteristic", data))
                          ELSE AttAwait(DatastoreWrite(attr.value.datastore,
                                    view.conn_id, handle, "Descriptor", data))

(***************************************************************************)
(* The inputs.                                                             *)
(***************************************************************************)
\* The handles of the inputs: the valid ATT handles up to MaxHandle.
Handles == 1..MaxHandle

\* Sequences over S of length at most n.
SeqsUpTo(S, n) == UNION {[1..k -> S] : k \in 0..n}

Min(a, b) == IF a <= b THEN a ELSE b

\* Descriptors and characteristics over the given handles, types and
\* permissions; a characteristic has at most maxDescs descriptors.
DescriptorsOver(H, P) ==
    [handle : H, type_ : {DESCRIPTOR_TYPE}, permissions : P]

CharacteristicsOver(H, T, P, maxDescs) ==
    {[handle |-> h, type_ |-> t, permissions |-> p, descriptors |-> ds] :
        h \in H, t \in T, p \in P,
        ds \in SeqsUpTo(DescriptorsOver(H, P), maxDescs)}

\* The number of descriptors of a service description.
RECURSIVE DescriptorCount(_)
DescriptorCount(characteristics) ==
    IF characteristics = << >> THEN 0
    ELSE Len(Head(characteristics).descriptors)
            + DescriptorCount(Tail(characteristics))

\* The lists of at most maxChars characteristics that build at most `budget`
\* records: two per characteristic and one per descriptor.
RECURSIVE CharacteristicListsOver(_, _, _, _, _)
CharacteristicListsOver(H, T, P, maxChars, budget) ==
    {<< >>} \cup
    (IF maxChars = 0 \/ budget < 2 THEN {}
     ELSE UNION {
            {<<c>> \o rest :
                rest \in CharacteristicListsOver(H, T, P, maxChars - 1,
                                                 budget - 2 - Len(c.descriptors))} :
            c \in CharacteristicsOver(H, T, P, Min(MaxDescs, budget - 2))})

\* The service descriptions that build at most MaxRecords records.
ServicesOver(H, T, P) ==
    {[handle |-> h, type_ |-> SERVICE_TYPE, characteristics |-> cs] :
        h \in H, cs \in CharacteristicListsOver(H, T, P, MaxChars, MaxRecords - 1)}

\* The service descriptions offered to a standalone schema: every layout of
\* handles.
SchemaServices ==
    ServicesOver(Handles, {CHARACTERISTIC_TYPE}, {{READABLE}})

\* The datastores an application may pass.
Datastores == {"ds1", "ds2"}

\* The standalone database of the unit tests.
TestDb == 1

(***************************************************************************)
(* History: which services are installed, and whether the calls so far     *)
(* respected the layout the structures' documentation asks for.            *)
(***************************************************************************)
\* The handles a service description asks to install.
InstallHandles(service) ==
    {service.handle}
    \cup {service.characteristics[i].handle : i \in DOMAIN service.characteristics}
    \cup {(service.characteristics[i].handle - 1) % HandleModulus :
            i \in DOMAIN service.characteristics}
    \cup UNION {{service.characteristics[i].descriptors[j].handle :
                    j \in DOMAIN service.characteristics[i].descriptors} :
                i \in DOMAIN service.characteristics}

\* The handles of a service description in declaration order: the service,
\* then per characteristic its declaration, its value and its descriptors.
RECURSIVE LayoutOfCharacteristics(_)
LayoutOfCharacteristics(characteristics) ==
    IF characteristics = << >> THEN << >>
    ELSE LET c == Head(characteristics)
         IN  <<(c.handle - 1) % HandleModulus, c.handle>>
             \o [j \in 1..Len(c.descriptors) |-> c.descriptors[j].handle]
             \o LayoutOfCharacteristics(Tail(characteristics))

Layout(service) ==
    <<service.handle>> \o LayoutOfCharacteristics(service.characteristics)

\* A service description laid out as GattServiceWithHandle and
\* GattDescriptorWithHandle document it: valid handles, ascending in
\* declaration order, and only the service declaration has the primary
\* service declaration type.
WellFormedService(service) ==
    LET layout == Layout(service)
    IN  /\ service.handle >= 1
        /\ \A i \in 1..(Len(layout) - 1) : layout[i] < layout[i + 1]
        /\ \A i \in DOMAIN service.characteristics :
              /\ service.characteristics[i].type_ # PRIMARY_SERVICE_DECLARATION_UUID
              /\ \A j \in DOMAIN service.characteristics[i].descriptors :
                    service.characteristics[i].descriptors[j].type_
                        # PRIMARY_SERVICE_DECLARATION_UUID

\* A well-formed service that lies between the services of the table: no
\* attribute is inside its range, and the first attribute above it, if any,
\* is the declaration of the next service.
WellFormedAdd(attributes, service) ==
    LET layout == Layout(service)
        above == {h \in DOMAIN attributes : h > service.handle}
    IN  /\ WellFormedService(service)
        /\ \A h \in DOMAIN attributes :
              h < service.handle \/ h > layout[Len(layout)]
        /\ above # {} =>
              attributes[CHOOSE h \in above : \A k \in above : h <= k].attribute.type_
                  = PRIMARY_SERVICE_DECLARATION_UUID

\* The handles of the descriptors of a service description.
DescriptorHandles(service) ==
    UNION {{service.characteristics[i].descriptors[j].handle :
                j \in DOMAIN service.characteristics[i].descriptors} :
           i \in DOMAIN service.characteristics}

\* What `live` records of an installed service: its handles and counts, the
\* value handles and descriptor handles of the description, and the datastore
\* it was registered with.
ServiceEntry(service, datastore) ==
    [handle |-> service.handle,
     handles |-> InstallHandles(service),
     n |-> Len(service.characteristics),
     d |-> DescriptorCount(service.characteristics),
     values |-> {service.characteristics[i].handle :
                    i \in DOMAIN service.characteristics},
     descriptors |-> DescriptorHandles(service),
     datastore |-> datastore]

(***************************************************************************)
(* The operations on a schema.                                             *)
(***************************************************************************)
\* What `last` records: the operation, its result, and what it cost: for a
\* call on a schema, by how many attributes the table grew (or, negative,
\* shrank); for a read or a write, how many datastore calls it made.
\* `data` is the bytes a datastore's answer carried, where there are any.
LastData(op, res, delta, data) ==
    [op |-> op, res |-> res, delta |-> delta, data |-> data]

Last(op, res, delta) == LastData(op, res, delta, "none")

\* The number of attributes of `after` minus that of `before`.
Delta(before, after) == Cardinality(DOMAIN after) - Cardinality(DOMAIN before)

\* The view of the unit tests: gatt_db.get_att_database(CONN_ID).
TestView == get_att_database(TestDb, CONN_ID)

\* The state after SharedBox::new(GattDatabase::new()) and
\* get_att_database(CONN_ID): one empty database, one view of it, no module.
\* What a watcher operation returned: its result, the id it is about and the
\* callbacks it called, each with the argument it was given.
Returned(op, res, id, calls) ==
    [op |-> op, res |-> res, id |-> id, calls |-> calls]

\* A thread that is not inside an operation of the watcher.
Idle == [pc |-> "idle"]

\* DisconnectWatcher::new(): next_id 0 and no callbacks.
new_watcher ==
    /\ next_id = 0
    /\ callbacks = EmptyMap
    /\ lock = "free"
    /\ caller = Idle
    /\ handler = Idle
    /\ told = Returned("new", "Ok", 0, {})
    /\ issued = {}

Init ==
    /\ new_watcher
    /\ gatt_dbs = (TestDb :> EmptyMap)
    /\ views = {TestView}
    /\ pending = << >>
    /\ databases = EmptyMap
    /\ connections = EmptyMap
    /\ next_db = TestDb + 1
    /\ last = Last("new", "Ok", 0)
    /\ live = {}
    /\ wf = TRUE
    /\ closed = {}

\* The borrows of the schema of gatt_db that suspended reads and writes hold.
Borrows(requests, gatt_db) ==
    Cardinality({i \in DOMAIN requests :
                    /\ requests[i].view.gatt_db = gatt_db
                    /\ requests[i].borrows > 0})

\* RefCell::borrow_mut: it panics when the cell is borrowed.
borrow_mut(borrows) ==
    IF borrows > 0 THEN "BorrowMutError" ELSE "Ok"

\* gatt_db.add_service_with_handles(service, datastore).  The records are
\* built, with the subtraction that may panic, before the schema is borrowed.
AddService(gatt_db, service, datastore) ==
    /\ gatt_db \in DOMAIN gatt_dbs
    /\ \E overflow_checks \in (IF Underflows(service) THEN BOOLEAN ELSE {FALSE}) :
         LET r == add_service_with_handles(gatt_dbs[gatt_db], service,
                                           datastore, overflow_checks)
             ok == wf /\ (r.res = "Ok" => WellFormedAdd(gatt_dbs[gatt_db], service))
             static_data == borrow_mut(Borrows(pending, gatt_db))
         IN  IF r.res # "Panic" /\ static_data # "Ok"
             THEN /\ last' = Last("add_service", static_data, 0)
                  /\ UNCHANGED <<gatt_dbs, wf, live>>
             ELSE /\ gatt_dbs' = [gatt_dbs EXCEPT ![gatt_db] = r.attributes]
                  /\ last' = Last("add_service", r.res,
                                  Delta(gatt_dbs[gatt_db], r.attributes))
                  /\ wf' = ok
                  /\ live' = IF ~ok THEN {}
                             ELSE IF r.res = "Ok"
                             THEN live \cup {ServiceEntry(service, datastore)}
                             ELSE live
    /\ UNCHANGED <<views, pending, module_vars, watcher_vars>>

\* gatt_db.remove_service_at_handle(service_handle).
RemoveService(gatt_db, service_handle) ==
    /\ gatt_db \in DOMAIN gatt_dbs
    /\ LET r == remove_service_at_handle(gatt_dbs[gatt_db], service_handle)
           ok == wf /\ \E s \in live : s.handle = service_handle
           static_data == borrow_mut(Borrows(pending, gatt_db))
       IN  IF static_data # "Ok"
           THEN /\ last' = Last("remove_service", static_data, 0)
                /\ UNCHANGED <<gatt_dbs, wf, live>>
           ELSE /\ gatt_dbs' = [gatt_dbs EXCEPT ![gatt_db] = r.attributes]
                /\ last' = Last("remove_service", r.res,
                                Delta(gatt_dbs[gatt_db], r.attributes))
                /\ wf' = ok
                /\ live' = IF ~ok THEN {}
                           ELSE {s \in live : s.handle # service_handle}
    /\ UNCHANGED <<views, pending, module_vars, watcher_vars>>

\* att_db.list_attributes(): it returns the list and changes nothing.
ListAttributes(view) ==
    /\ list_attributes(gatt_dbs, view) \in Seq(
          [handle : Nat, type_ : Nat, permissions : SUBSET {READABLE, WRITABLE, INDICATE}])
    /\ UNCHANGED vars

\* The handles a request may name: those of the inputs and 0, the handle a
\* declaration takes below value handle 1.
RequestHandles == 0..MaxHandle

Next ==
    \/ \E service \in SchemaServices :
          AddService(TestDb, service, "ds1")
    \/ \E service_handle \in RequestHandles :
          RemoveService(TestDb, service_handle)
    \/ \E view \in views : ListAttributes(view)

Spec == Init /\ [][Next]_vars

(***************************************************************************)
(* Claims about the schema, checked under Spec.                            *)
(***************************************************************************)
\* The attribute table of the standalone database.
TestTable == gatt_dbs[TestDb]

\* The smallest element of a non-empty set of handles.
Lowest(S) == CHOOSE x \in S : \A y \in S : x <= y

\* C1: an add_service that returns an error leaves the attribute table as it
\* was: nothing of the rejected service is installed and no record changes.
C1_FailedAddLeavesSchema ==
    [][(last'.op = "add_service" /\ last'.res = "Err") => gatt_dbs' = gatt_dbs]_vars

\* C1 witness: an add_service was rejected on a table that holds attributes.
C1_Witness ==
    /\ last.op = "add_service" /\ last.res = "Err"
    /\ DOMAIN TestTable # {}

\* C2: add_service returns an error whenever a handle it would install (the
\* service handle, a declaration handle value_handle - 1, a value handle or a
\* descriptor handle) is already in the table.
C2_PresentHandleRejected ==
    \A service \in SchemaServices, datastore \in Datastores,
       overflow_checks \in BOOLEAN :
        InstallHandles(service) \cap DOMAIN TestTable # {} =>
            add_service_with_handles(TestTable, service, datastore,
                                     overflow_checks).res = "Err"

\* C2 witness: an add_service was rejected while two services were installed.
C2_Witness ==
    /\ last.op = "add_service" /\ last.res = "Err"
    /\ wf /\ Cardinality(live) >= 2

\* Two of the records a service description builds share a handle.
SharesHandle(service) ==
    LET layout == Layout(service)
    IN  \E i, j \in DOMAIN layout : i # j /\ layout[i] = layout[j]

\* C3: add_service returns an error whenever two records built from one
\* service description share a handle, whatever the table holds.
C3_DuplicateInInputRejected ==
    \A service \in SchemaServices, datastore \in Datastores,
       overflow_checks \in BOOLEAN :
        SharesHandle(service) =>
            add_service_with_handles(TestTable, service, datastore,
                                     overflow_checks).res = "Err"

\* C3 witness: an add_service was rejected on the empty table, where only a
\* handle shared inside the description can be the cause.
C3_Witness ==
    /\ last.op = "add_service" /\ last.res = "Err"
    /\ TestTable = EmptyMap

\* C4: after a well-formed sequence of add_service and remove_service calls,
\* list_attributes() is strictly ascending by handle and its handles are
\* exactly those of the services added and not removed since.
C4_ListIsLiveServices ==
    wf => \A view \in views :
            LET attrs == list_attributes(gatt_dbs, view)
            IN  /\ \A i \in 1..(Len(attrs) - 1) : attrs[i].handle < attrs[i + 1].handle
                /\ {attrs[i].handle : i \in DOMAIN attrs}
                      = UNION {s.handles : s \in live}

\* C4 witness: a well-formed sequence in which a remove_service took a
\* service out and a service with a characteristic is still installed.
C4_Witness ==
    /\ wf /\ views # {}
    /\ last.op = "remove_service" /\ last.delta < 0
    /\ \E s \in live : s.n >= 1

\* The range remove_service(service_handle) is said to delete: from
\* service_handle up to the next primary service declaration above it.
InRemovedRange(attributes, service_handle, h) ==
    LET services_above ==
            {k \in DOMAIN attributes :
                /\ k > service_handle
                /\ attributes[k].attribute.type_ = PRIMARY_SERVICE_DECLARATION_UUID}
    IN  /\ service_handle <= h
        /\ services_above # {} => h < Lowest(services_above)

\* C5: remove_service(service_handle) deletes exactly the records in
\* [service_handle, next_service_handle) and leaves every other record as it
\* was.
C5_RemoveDeletesRange ==
    \A service_handle \in RequestHandles :
        LET after == remove_service_at_handle(TestTable, service_handle).attributes
        IN  /\ DOMAIN after =
                  {h \in DOMAIN TestTable :
                      ~InRemovedRange(TestTable, service_handle, h)}
            /\ \A h \in DOMAIN after : after[h] = TestTable[h]

\* C5 witness: a remove_service deleted records and left others.
C5_Witness ==
    /\ last.op = "remove_service" /\ last.delta < 0
    /\ DOMAIN TestTable # {}

\* C6: remove_service(service_handle) is a no-op when no attribute exists at
\* service_handle.
C6_RemoveAbsentIsNoOp ==
    \A service_handle \in RequestHandles :
        service_handle \notin DOMAIN TestTable =>
            remove_service_at_handle(TestTable, service_handle).attributes = TestTable

\* C7: remove_service returns Ok for every table and handle, and a second
\* remove_service(h) right after the first changes nothing.
C7_RemoveTotalIdempotent ==
    \A service_handle \in RequestHandles :
        LET once == remove_service_at_handle(TestTable, service_handle)
            twice == remove_service_at_handle(once.attributes, service_handle)
        IN  /\ once.res = "Ok"
            /\ twice.res = "Ok"
            /\ twice.attributes = once.attributes

\* C7 witness: a remove_service returned Ok and found nothing to delete in a
\* table that holds attributes.
C7_Witness ==
    /\ last.op = "remove_service" /\ last.res = "Ok" /\ last.delta = 0
    /\ DOMAIN TestTable # {}

\* The number of attributes remove_service(service_handle) deletes.
RemovedCount(attributes, service_handle) ==
    Cardinality(DOMAIN attributes)
        - Cardinality(DOMAIN remove_service_at_handle(attributes,
                                                      service_handle).attributes)

Permissions == {{READABLE}, {WRITABLE}, {READABLE, WRITABLE}}

\* The handles of the read and write runs: room for two services of one
\* characteristic each, as in test_multiple_datastores.
AttHandles == 1..MaxAttHandle
AttRequestHandles == 0..MaxAttHandle

\* A service that takes consecutive handles: its characteristic's value two
\* above the service declaration, the descriptor right above the value.
Compact(service) ==
    \A i \in DOMAIN service.characteristics :
        LET characteristic == service.characteristics[i]
        IN  /\ characteristic.handle = service.handle + 2
            /\ \A j \in DOMAIN characteristic.descriptors :
                  characteristic.descriptors[j].handle = characteristic.handle + 1

\* The service descriptions of the read and write runs: laid out as the
\* structures document, compact, starting every third handle, with at most
\* one characteristic, in every permission.
AttServices ==
    {service \in ServicesOver(AttHandles, {CHARACTERISTIC_TYPE}, Permissions) :
        /\ WellFormedService(service)
        /\ Len(service.characteristics) <= 1
        /\ Compact(service)
        /\ service.handle % 3 = 1}

\* The bytes a client writes and a datastore returns.
WriteData == {"d1"}
ReadData == {"v1", "v2"}

\* The error codes a datastore answers with.
DatastoreErrors == {"UNLIKELY_ERROR", "APPLICATION_ERROR"}

\* The answers of a datastore to a read and to a write.
DatastoreAnswers(op) ==
    (IF op = "read" THEN {[res |-> "Ok", data |-> d] : d \in ReadData}
     ELSE {[res |-> "Ok", data |-> "none"]})
    \cup {[res |-> "Err", code |-> c] : c \in DatastoreErrors}

\* What `last` shows of a read or write that came to r.
Outcome(r) ==
    IF r.res = "Err" THEN r.code ELSE r.res

\* att_db.read_attribute(handle), up to its first suspension.
ReadAttribute(view, handle) ==
    LET r == read_attribute(gatt_dbs, view, handle)
    IN  /\ Len(pending) + Len(r.calls) <= MaxPending
        /\ pending' = pending \o [i \in 1..Len(r.calls) |->
                                    [view |-> view, call |-> r.calls[i],
                                     borrows |-> Cardinality(RefsAtAwait)]]
        /\ last' = Last("read_attribute", Outcome(r), Len(r.calls))
        /\ UNCHANGED <<schema_vars, views, module_vars, watcher_vars>>

\* att_db.write_attribute(handle, data), up to its first suspension.
WriteAttribute(view, handle, data) ==
    LET r == write_attribute(gatt_dbs, view, handle, data)
    IN  /\ Len(pending) + Len(r.calls) <= MaxPending
        /\ pending' = pending \o [i \in 1..Len(r.calls) |->
                                    [view |-> view, call |-> r.calls[i],
                                     borrows |-> Cardinality(RefsAtAwait)]]
        /\ last' = Last("write_attribute", Outcome(r), Len(r.calls))
        /\ UNCHANGED <<schema_vars, views, module_vars, watcher_vars>>

\* The sequence without its i-th element.
Without(seq, i) ==
    [j \in 1..(Len(seq) - 1) |-> IF j < i THEN seq[j] ELSE seq[j + 1]]

\* The bytes of an answer.
Bytes(r) ==
    IF r.res = "Ok" THEN r.data ELSE "none"

\* Mutant: the view reports every datastore failure as UNLIKELY_ERROR and
\* every value as the first one.
await_datastore_masks(answer) ==
    IF answer.res = "Err" THEN [res |-> "Err", code |-> "UNLIKELY_ERROR"]
    ELSE IF answer.data = "none" THEN answer
    ELSE [res |-> "Ok", data |-> "v1"]

\* datastore.read(..).await and datastore.write(..).await as the tail of the
\* match: what the suspended read or write returns once the datastore answers.
await_datastore(answer) ==
    answer

\* Mutant: when the datastore answers, the request looks its attribute up
\* again and returns INVALID_HANDLE if it is gone.
DatastoreReply_looks_up_again(i, answer) ==
    /\ i \in DOMAIN pending
    /\ answer \in DatastoreAnswers(pending[i].call.op)
    /\ pending' = Without(pending, i)
    /\ LET returned == await_datastore(answer)
           db == Upgrade(gatt_dbs, pending[i].view.gatt_db)
           gone == \/ db = {}
                   \/ \A attributes \in db :
                         pending[i].call.handle \notin DOMAIN attributes
       IN  last' = LastData(IF pending[i].call.op = "read" THEN "read_attribute"
                            ELSE "write_attribute",
                            IF gone THEN "INVALID_HANDLE" ELSE Outcome(returned),
                            1,
                            IF gone THEN "none" ELSE Bytes(returned))
    /\ UNCHANGED <<schema_vars, views, module_vars, watcher_vars>>

\* The datastore answers the i-th call in flight: the read or write that
\* awaits it returns.
DatastoreReply(i, answer) ==
    /\ i \in DOMAIN pending
    /\ answer \in DatastoreAnswers(pending[i].call.op)
    /\ pending' = Without(pending, i)
    /\ LET returned == await_datastore(answer)
       IN  last' = LastData(IF pending[i].call.op = "read" THEN "read_attribute"
                            ELSE "write_attribute",
                            Outcome(returned), 1, Bytes(returned))
    /\ UNCHANGED <<schema_vars, views, module_vars, watcher_vars>>

\* The caller drops the future of the i-th suspended read or write: its
\* locals are dropped and its datastore call is never answered.
Cancel(i) ==
    /\ i \in DOMAIN pending
    /\ pending' = Without(pending, i)
    /\ last' = Last("cancel", "Ok", 0)
    /\ UNCHANGED <<schema_vars, views, module_vars, watcher_vars>>

NextAtt ==
    \/ \E service \in AttServices, datastore \in Datastores :
          AddService(TestDb, service, datastore)
    \/ \E service_handle \in AttRequestHandles :
          RemoveService(TestDb, service_handle)
    \/ \E view \in views : ListAttributes(view)
    \/ \E view \in views, handle \in AttRequestHandles :
          ReadAttribute(view, handle)
    \/ \E view \in views, handle \in AttRequestHandles, data \in WriteData :
          WriteAttribute(view, handle, data)
    \/ \E i \in 1..MaxPending, answer \in DatastoreAnswers("read")
                                        \cup DatastoreAnswers("write") :
          DatastoreReply(i, answer)
    \/ \E i \in 1..MaxPending : Cancel(i)

SpecAtt == Init /\ [][NextAtt]_vars

(***************************************************************************)
(* Claims about reads and writes, checked under SpecAtt.                   *)
(***************************************************************************)
\* The table behind a view whose database still exists.
TableOf(view) == CHOOSE attributes \in Upgrade(gatt_dbs, view.gatt_db) : TRUE

\* C10: on a live schema, read_attribute(h) and write_attribute(h, data)
\* return INVALID_HANDLE for every handle h at which no attribute exists, and
\* call no datastore.
C10_AbsentHandleInvalid ==
    \A view \in views :
        Upgrade(gatt_dbs, view.gatt_db) # {} =>
            \A h \in AttRequestHandles :
                h \notin DOMAIN TableOf(view) =>
                    /\ read_attribute(gatt_dbs, view, h) = AttErr("INVALID_HANDLE")
                    /\ \A data \in WriteData :
                          write_attribute(gatt_dbs, view, h, data)
                              = AttErr("INVALID_HANDLE")

\* C10 witness: a read on a live schema that holds attributes named a handle
\* outside the table, returned INVALID_HANDLE, and no datastore call is in
\* flight.
C10_Witness ==
    /\ last.op = "read_attribute" /\ last.res = "INVALID_HANDLE"
    /\ TestView \in views
    /\ TestTable # EmptyMap
    /\ \E h \in AttRequestHandles : h \notin DOMAIN TestTable
    /\ pending = << >>

\* The views whose database still exists.
LiveViews == {view \in views : Upgrade(gatt_dbs, view.gatt_db) # {}}

\* C11: read_attribute on an existing attribute that lacks READABLE returns
\* READ_NOT_PERMITTED, write_attribute on an existing attribute that lacks
\* WRITABLE returns WRITE_NOT_PERMITTED, and neither calls a datastore.
C11_PermissionDenied ==
    \A view \in LiveViews :
        \A h \in DOMAIN TableOf(view) :
            LET permissions == TableOf(view)[h].attribute.permissions
            IN  /\ ~readable(permissions) =>
                      read_attribute(gatt_dbs, view, h)
                          = AttErr("READ_NOT_PERMITTED")
                /\ ~writable(permissions) =>
                      \A data \in WriteData :
                          write_attribute(gatt_dbs, view, h, data)
                              = AttErr("WRITE_NOT_PERMITTED")

\* C11 witness: a write to a dynamic attribute that is readable but not
\* writable was refused, with no datastore call made or in flight.
C11_Witness ==
    /\ last = Last("write_attribute", "WRITE_NOT_PERMITTED", 0)
    /\ pending = << >>
    /\ \A h \in DOMAIN TestTable :
          TestTable[h].value.kind # "Static"
              => TestTable[h].attribute.permissions = {READABLE}
    /\ \E h \in DOMAIN TestTable : TestTable[h].value.kind = "DynamicDescriptor"

\* C12: read_attribute on a static attribute returns, without suspending and
\* without a datastore call, the declaration value add_service recorded: for a
\* service declaration the service's type; for a characteristic declaration
\* the value handle, type and properties of the characteristic installed above
\* it.
C12_StaticReadIsDeclaration ==
    \A view \in LiveViews :
        \A h \in DOMAIN TableOf(view) :
            LET attr == TableOf(view)[h]
                r == read_attribute(gatt_dbs, view, h)
            IN  attr.value.kind = "Static" =>
                    /\ r = AttOk(attr.value.data)
                    /\ attr.attribute.type_ = PRIMARY_SERVICE_DECLARATION_UUID
                          => r.data = [decl |-> "GattServiceDeclarationValue",
                                       uuid |-> SERVICE_TYPE]
                    /\ (wf /\ attr.attribute.type_ = CHARACTERISTIC_UUID)
                          => /\ h + 1 \in DOMAIN TableOf(view)
                             /\ r.data.decl = "GattCharacteristicDeclarationValue"
                             /\ r.data.handle = h + 1
                             /\ r.data.uuid = TableOf(view)[h + 1].attribute.type_
                             /\ r.data.properties.read = Bit(readable(
                                    TableOf(view)[h + 1].attribute.permissions))
                             /\ r.data.properties.write = Bit(writable(
                                    TableOf(view)[h + 1].attribute.permissions))

\* C12 witness: a read of a declaration returned at once, with no datastore
\* call, in a table that holds a characteristic whose value is not readable.
C12_Witness ==
    /\ last = Last("read_attribute", "Ok", 0)
    /\ pending = << >>
    /\ wf
    /\ \E h \in DOMAIN TestTable :
          /\ TestTable[h].attribute.type_ = CHARACTERISTIC_UUID
          /\ TestTable[h].value.data.properties.read = 0

\* C13: in every reachable schema state, write_attribute on a handle whose
\* backing is Static is rejected with WRITE_NOT_PERMITTED and calls no
\* datastore.
C13_StaticWriteRejected ==
    \A view \in LiveViews :
        \A h \in DOMAIN TableOf(view) :
            TableOf(view)[h].value.kind = "Static" =>
                \A data \in WriteData :
                    write_attribute(gatt_dbs, view, h, data)
                        = AttErr("WRITE_NOT_PERMITTED")

\* C13 witness: a write was refused with no datastore call in a table whose
\* dynamic attributes are all writable: the write named a declaration.
C13_Witness ==
    /\ last = Last("write_attribute", "WRITE_NOT_PERMITTED", 0)
    /\ pending = << >>
    /\ \E h \in DOMAIN TestTable : TestTable[h].value.kind = "DynamicCharacteristic"
    /\ \A h \in DOMAIN TestTable :
          TestTable[h].value.kind # "Static"
              => writable(TestTable[h].attribute.permissions)

\* Every answer a datastore gives.
AllAnswers == DatastoreAnswers("read") \cup DatastoreAnswers("write")

\* C14: when a read or a write was delegated to a datastore, what the view
\* returns is the datastore's answer: the same bytes on success and the same
\* error code on failure.
C14_DatastoreResultPropagated ==
    [][\A i \in 1..MaxPending, answer \in AllAnswers :
          DatastoreReply(i, answer) =>
              /\ last'.res = (IF answer.res = "Ok" THEN "Ok" ELSE answer.code)
              /\ last'.data = (IF answer.res = "Ok" THEN answer.data ELSE "none")
              /\ last'.delta = 1]_vars

\* C14 witness: a delegated read returned the second value of the datastore.
C14_Witness ==
    last = LastData("read_attribute", "Ok", 1, "v2")

\* What a permitted read, and a permitted write of `data`, of the attribute
\* at h come to when the one datastore call they make is `kind` on `datastore`.
DelegatesTo(view, h, datastore, kind) ==
    LET permissions == TableOf(view)[h].attribute.permissions
    IN  /\ readable(permissions) =>
              read_attribute(gatt_dbs, view, h)
                  = AttAwait(DatastoreRead(datastore, view.conn_id, h, kind))
        /\ writable(permissions) =>
              \A data \in WriteData :
                  write_attribute(gatt_dbs, view, h, data)
                      = AttAwait(DatastoreWrite(datastore, view.conn_id, h,
                                                kind, data))

\* C15: a permitted read or write of a dynamic attribute at handle h makes
\* exactly one datastore call: on the datastore passed to the add_service that
\* installed h, with the view's connection id, the handle h, and the backing
\* kind Characteristic for a characteristic value handle and Descriptor for a
\* descriptor handle; no other datastore is called.
C15_OneCallOnOwningDatastore ==
    wf =>
        \A view \in LiveViews, s \in live :
            /\ \A h \in s.values :
                  DelegatesTo(view, h, s.datastore, "Characteristic")
            /\ \A h \in s.descriptors :
                  DelegatesTo(view, h, s.datastore, "Descriptor")

\* C15 witness: two services with a readable characteristic each are
\* installed with different datastores, and a read made one call, now in
\* flight, on the datastore of the second.
C15_Witness ==
    /\ wf
    /\ \E s1, s2 \in live :
          /\ s1.datastore = "ds1" /\ s2.datastore = "ds2"
          /\ s1.handle < s2.handle
          /\ \E h \in s1.values : readable(TestTable[h].attribute.permissions)
          /\ \E h \in s2.values :
                /\ readable(TestTable[h].attribute.permissions)
                /\ Len(pending) = 1
                /\ pending[1].view = TestView
                /\ pending[1].call = DatastoreRead("ds2", CONN_ID, h,
                                                   "Characteristic")
    /\ last = Last("read_attribute", "Await", 1)

\* C16: once an add_service or remove_service on a schema has returned, the
\* list_attributes, read_attribute and write_attribute of every view of that
\* schema, the views made before the call included, see the table as the call
\* left it: the list names exactly the handles of the services installed and
\* not removed by the calls so far, and a read or a write finds an attribute
\* exactly at those handles.
C16_ViewsSeeMutation ==
    (wf /\ last.op \in {"add_service", "remove_service"}) =>
        \A view \in views :
            LET installed == UNION {s.handles : s \in live}
                listing == list_attributes(gatt_dbs, view)
            IN  /\ {listing[i].handle : i \in DOMAIN listing} = installed
                /\ Len(listing) = Cardinality(installed)
                /\ \A h \in AttRequestHandles :
                      /\ h \in installed
                            <=> read_attribute(gatt_dbs, view, h)
                                    # AttErr("INVALID_HANDLE")
                      /\ \A data \in WriteData :
                            h \in installed
                                <=> write_attribute(gatt_dbs, view, h, data)
                                        # AttErr("INVALID_HANDLE")

\* C16 witness: the view made on the empty database lists the attributes of
\* two services right after the add_service that installed the second.
C16_Witness ==
    /\ TestView \in views
    /\ wf
    /\ last.op = "add_service" /\ last.res = "Ok" /\ last.delta > 0
    /\ Cardinality(live) = 2
    /\ Len(list_attributes(gatt_dbs, TestView)) > last.delta

(***************************************************************************)
(* GattModule: servers, their databases, and the connections' bearers.     *)
(***************************************************************************)
ServerIds == 1..MaxServers
TransportIndexes == 1..MaxTransports

\* A ConnectionId names a server and a transport index.
ConnectionIds == [server_id : ServerIds, tcb_idx : TransportIndexes]

\* register_builtin_services on a new database: the GATT service, with its
\* Service Changed characteristic, on the internal datastore.
BuiltinService ==
    [handle |-> 1, type_ |-> GATT_SERVICE_UUID,
     characteristics |->
        <<[handle |-> 3, type_ |-> SERVICE_CHANGE_UUID,
           permissions |-> {INDICATE}, descriptors |-> << >>]>>]

BuiltinHandles == InstallHandles(BuiltinService)

register_builtin_services(attributes) ==
    add_service_with_handles(attributes, BuiltinService, "builtin", FALSE).attributes

\* The service descriptions applications register: above the built-in
\* handles, with at most one characteristic and no descriptor.
FirstAppHandle == 1 + Cardinality(BuiltinHandles)

ModuleServices ==
    {service \in ServicesOver(FirstAppHandle..(FirstAppHandle + MaxAppHandles - 1),
                              {CHARACTERISTIC_TYPE}, {{READABLE, WRITABLE}}) :
        /\ WellFormedService(service)
        /\ service.handle = FirstAppHandle
        /\ Len(service.characteristics) <= 1
        /\ DescriptorCount(service.characteristics) = 0}

\* The handles requests to a server name.
ModuleHandles == 0..(FirstAppHandle + MaxAppHandles - 1)

\* The databases no server holds any more: dropping the last SharedBox
\* destroys the GattDatabase.
Dropped(dbs, held) ==
    [gatt_db \in {d \in DOMAIN dbs : d \in held} |-> dbs[gatt_db]]

\* Mutant: an open of a server that is already open is refused and changes
\* nothing.
open_gatt_server_rejects(dbs, servers, fresh, server_id) ==
    LET db == register_builtin_services(EmptyMap)
        inserted == (server_id :> fresh) @@ servers
    IN  IF server_id \in DOMAIN servers
        THEN [res |-> "Err", databases |-> servers, gatt_dbs |-> dbs]
        ELSE [res |-> "Ok", databases |-> inserted,
              gatt_dbs |-> (fresh :> db) @@ dbs]

\* Mutant: the schema a second open replaces stays alive.
open_gatt_server_keeps_old(dbs, servers, fresh, server_id) ==
    LET db == register_builtin_services(EmptyMap)
        inserted == (server_id :> fresh) @@ servers
    IN  [res |-> IF server_id \in DOMAIN servers THEN "Err" ELSE "Ok",
         databases |-> inserted,
         gatt_dbs |-> (fresh :> db) @@ dbs]

\* GattModule::open_gatt_server.
open_gatt_server(dbs, servers, fresh, server_id) ==
    LET db == register_builtin_services(EmptyMap)
        inserted == (server_id :> fresh) @@ servers
        held == {inserted[id] : id \in DOMAIN inserted}
    IN  [res |-> IF server_id \in DOMAIN servers THEN "Err" ELSE "Ok",
         databases |-> inserted,
         gatt_dbs |-> Dropped((fresh :> db) @@ dbs, held)]

\* Mutant: the closed server's database stays alive.
close_gatt_server_leaks(dbs, servers, server_id) ==
    IF server_id \notin DOMAIN servers
    THEN [res |-> "Err", databases |-> servers, gatt_dbs |-> dbs]
    ELSE LET removed == [id \in DOMAIN servers \ {server_id} |-> servers[id]]
         IN  [res |-> "Ok", databases |-> removed, gatt_dbs |-> dbs]

\* Mutant: closing a server that is not open fails, and closes every server.
close_gatt_server_closes_all(dbs, servers, server_id) ==
    IF server_id \notin DOMAIN servers
    THEN [res |-> "Err", databases |-> EmptyMap, gatt_dbs |-> Dropped(dbs, {})]
    ELSE LET removed == [id \in DOMAIN servers \ {server_id} |-> servers[id]]
             held == {removed[id] : id \in DOMAIN removed}
         IN  [res |-> "Ok", databases |-> removed,
              gatt_dbs |-> Dropped(dbs, held)]

\* GattModule::close_gatt_server.
close_gatt_server(dbs, servers, server_id) ==
    IF server_id \notin DOMAIN servers
    THEN [res |-> "Err", databases |-> servers, gatt_dbs |-> dbs]
    ELSE LET removed == [id \in DOMAIN servers \ {server_id} |-> servers[id]]
             held == {removed[id] : id \in DOMAIN removed}
         IN  [res |-> "Ok", databases |-> removed,
              gatt_dbs |-> Dropped(dbs, held)]

\* The number of attributes of a server's schema; none when it is not open.
SchemaSize(dbs, servers, server_id) ==
    IF server_id \in DOMAIN servers
    THEN Cardinality(DOMAIN dbs[servers[server_id]])
    ELSE 0

\* module.open_gatt_server(server_id).
OpenGattServer(server_id) ==
    /\ next_db <= MaxDbs
    /\ LET r == open_gatt_server(gatt_dbs, databases, next_db, server_id)
       IN  /\ gatt_dbs' = r.gatt_dbs
           /\ databases' = r.databases
           /\ last' = Last("open_gatt_server", r.res,
                           Cardinality(DOMAIN r.gatt_dbs[r.databases[server_id]])
                             - SchemaSize(gatt_dbs, databases, server_id))
    /\ next_db' = next_db + 1
    /\ UNCHANGED <<views, pending, connections, live, wf, closed, watcher_vars>>

\* module.close_gatt_server(server_id).
CloseGattServer(server_id) ==
    /\ LET r == close_gatt_server(gatt_dbs, databases, server_id)
       IN  /\ gatt_dbs' = r.gatt_dbs
           /\ databases' = r.databases
           /\ last' = Last("close_gatt_server", r.res, 0)
           /\ closed' = IF r.res = "Ok" THEN closed \cup {databases[server_id]}
                        ELSE closed
    /\ UNCHANGED <<views, pending, connections, next_db, live, wf, watcher_vars>>

\* Mutant: on an open server the call reports success whatever the schema
\* answered.
RegisterGattService_swallows(server_id, service, datastore) ==
    /\ IF server_id \notin DOMAIN databases
       THEN /\ gatt_dbs' = gatt_dbs
            /\ last' = Last("register_gatt_service", "Err", 0)
       ELSE LET gatt_db == databases[server_id]
                r == add_service_with_handles(gatt_dbs[gatt_db], service,
                                              datastore, FALSE)
            IN  /\ gatt_dbs' = [gatt_dbs EXCEPT ![gatt_db] = r.attributes]
                /\ last' = Last("register_gatt_service", "Ok",
                                Delta(gatt_dbs[gatt_db], r.attributes))
    /\ UNCHANGED <<views, pending, module_vars, live, wf, watcher_vars>>

\* module.register_gatt_service(server_id, service, datastore).
RegisterGattService(server_id, service, datastore) ==
    /\ IF server_id \notin DOMAIN databases
       THEN /\ gatt_dbs' = gatt_dbs
            /\ last' = Last("register_gatt_service", "Err", 0)
       ELSE LET gatt_db == databases[server_id]
                r == add_service_with_handles(gatt_dbs[gatt_db], service,
                                              datastore, FALSE)
            IN  /\ gatt_dbs' = [gatt_dbs EXCEPT ![gatt_db] = r.attributes]
                /\ last' = Last("register_gatt_service", r.res,
                                Delta(gatt_dbs[gatt_db], r.attributes))
    /\ UNCHANGED <<views, pending, module_vars, live, wf, watcher_vars>>

\* module.unregister_gatt_service(server_id, service_handle).
UnregisterGattService(server_id, service_handle) ==
    /\ IF server_id \notin DOMAIN databases
       THEN /\ gatt_dbs' = gatt_dbs
            /\ last' = Last("unregister_gatt_service", "Err", 0)
       ELSE LET gatt_db == databases[server_id]
                r == remove_service_at_handle(gatt_dbs[gatt_db], service_handle)
            IN  /\ gatt_dbs' = [gatt_dbs EXCEPT ![gatt_db] = r.attributes]
                /\ last' = Last("unregister_gatt_service", r.res,
                                Delta(gatt_dbs[gatt_db], r.attributes))
    /\ UNCHANGED <<views, pending, module_vars, live, wf, watcher_vars>>

\* What happens inside a module call, in order: a bearer is dropped, or a
\* hook of a database is invoked.
Event(event, gatt_db, tcb_idx) ==
    [event |-> event, gatt_db |-> gatt_db, tcb_idx |-> tcb_idx]

\* What on_le_connect does in order: on_bearer_ready on the database, then
\* connections.insert, which drops the connection it replaces.
ConnectEvents(conns, database, tcb_idx) ==
    <<Event("on_bearer_ready", database, tcb_idx)>>
    \o (IF tcb_idx \in DOMAIN conns
        THEN <<Event("drop_bearer", conns[tcb_idx].database, tcb_idx)>>
        ELSE << >>)

\* GattModule::get_bearer: an Option, as a set of at most one bearer.
get_bearer(conns, tcb_idx) ==
    IF tcb_idx \in DOMAIN conns THEN {conns[tcb_idx].bearer} ELSE {}

\* Mutant: a connection to a server that is not open is stored all the same,
\* over a database that does not exist.
on_le_connect_unchecked(servers, conns, conn_id) ==
    LET database == IF conn_id.server_id \in DOMAIN servers
                    THEN servers[conn_id.server_id] ELSE 0
        tcb_idx == conn_id.tcb_idx
        bearer == get_att_database(database, tcb_idx)
    IN  [res |-> "Ok",
         connections |-> (tcb_idx :> [bearer |-> bearer, database |-> database])
                             @@ conns,
         bearers |-> {bearer},
         hooks |-> <<[hook |-> "on_bearer_ready", gatt_db |-> database,
                      tcb_idx |-> tcb_idx]>>,
         events |-> ConnectEvents(conns, database, tcb_idx)]

\* GattModule::on_le_connect: the result, the connections after it, the
\* bearer it made, and the hooks of the database it invoked.
on_le_connect(servers, conns, conn_id) ==
    IF conn_id.server_id \notin DOMAIN servers
    THEN [res |-> "Err", connections |-> conns, bearers |-> {},
          hooks |-> << >>, events |-> << >>]
    ELSE LET database == servers[conn_id.server_id]
             tcb_idx == conn_id.tcb_idx
             bearer == get_att_database(database, tcb_idx)
         IN  [res |-> "Ok",
              connections |-> (tcb_idx :> [bearer |-> bearer,
                                           database |-> database]) @@ conns,
              bearers |-> {bearer},
              hooks |-> <<[hook |-> "on_bearer_ready", gatt_db |-> database,
                           tcb_idx |-> tcb_idx]>>,
              events |-> ConnectEvents(conns, database, tcb_idx)]

\* module.on_le_connect(conn_id): a bearer over a view of the server's
\* database, stored under the transport index.
OnLeConnect(conn_id) ==
    /\ LET r == on_le_connect(databases, connections, conn_id)
       IN  /\ views' = views \cup r.bearers
           /\ connections' = r.connections
           /\ last' = Last("on_le_connect", r.res, Len(r.hooks))
    /\ UNCHANGED <<gatt_dbs, pending, databases, next_db, live, wf, closed, watcher_vars>>

\* Mutant: the hook runs while the bearer still exists.
on_le_disconnect_hook_first(dbs, conns, tcb_idx) ==
    IF tcb_idx \notin DOMAIN conns
    THEN [res |-> "Err", connections |-> conns, events |-> << >>]
    ELSE LET connection == conns[tcb_idx]
         IN  [res |-> "Ok",
              connections |-> [t \in DOMAIN conns \ {tcb_idx} |-> conns[t]],
              events |->
                  (IF Upgrade(dbs, connection.database) # {}
                   THEN <<Event("on_bearer_dropped", connection.database, tcb_idx)>>
                   ELSE << >>)
                  \o <<Event("drop_bearer", connection.database, tcb_idx)>>]

\* GattModule::on_le_disconnect: the result, the connections after it, and
\* what it did in order: drop(connection.bearer), then on_bearer_dropped on
\* the database if it still exists.
on_le_disconnect(dbs, conns, tcb_idx) ==
    IF tcb_idx \notin DOMAIN conns
    THEN [res |-> "Err", connections |-> conns, events |-> << >>]
    ELSE LET connection == conns[tcb_idx]
         IN  [res |-> "Ok",
              connections |-> [t \in DOMAIN conns \ {tcb_idx} |-> conns[t]],
              events |->
                  <<Event("drop_bearer", connection.database, tcb_idx)>>
                  \o (IF Upgrade(dbs, connection.database) # {}
                      THEN <<Event("on_bearer_dropped", connection.database,
                                   tcb_idx)>>
                      ELSE << >>)]

\* The hook invocations among the events.
Hooks(events) ==
    SelectSeq(events, LAMBDA ev : ev.event # "drop_bearer")

\* module.on_le_disconnect(tcb_idx).
OnLeDisconnect(tcb_idx) ==
    /\ LET r == on_le_disconnect(gatt_dbs, connections, tcb_idx)
       IN  /\ connections' = r.connections
           /\ last' = Last("on_le_disconnect", r.res, Len(Hooks(r.events)))
    /\ UNCHANGED <<gatt_dbs, views, pending, databases, next_db, live, wf, closed, watcher_vars>>

\* GattModule::new: no server, no connection.
InitModule ==
    /\ new_watcher
    /\ gatt_dbs = EmptyMap
    /\ views = {}
    /\ pending = << >>
    /\ databases = EmptyMap
    /\ connections = EmptyMap
    /\ next_db = 1
    /\ last = Last("new", "Ok", 0)
    /\ live = {}
    /\ wf = TRUE
    /\ closed = {}

NextModule ==
    \/ \E server_id \in ServerIds : OpenGattServer(server_id)
    \/ \E server_id \in ServerIds : CloseGattServer(server_id)
    \/ \E server_id \in ServerIds, service \in ModuleServices :
          RegisterGattService(server_id, service, "ds1")
    \/ \E server_id \in ServerIds, service_handle \in {BuiltinService.handle, FirstAppHandle} :
          UnregisterGattService(server_id, service_handle)
    \/ \E conn_id \in ConnectionIds : OnLeConnect(conn_id)
    \/ \E tcb_idx \in TransportIndexes : OnLeDisconnect(tcb_idx)
    \/ \E view \in views : ListAttributes(view)
    \/ \E view \in views, handle \in ModuleHandles :
          ReadAttribute(view, handle)
    \/ \E view \in views, handle \in ModuleHandles, data \in WriteData :
          WriteAttribute(view, handle, data)
    \/ \E i \in 1..MaxPending, answer \in DatastoreAnswers("read")
                                        \cup DatastoreAnswers("write") :
          DatastoreReply(i, answer)

SpecModule == InitModule /\ [][NextModule]_vars

(***************************************************************************)
(* Claims about the module, checked under SpecModule.                      *)
(***************************************************************************)
\* C9: after close_gatt_server(id) succeeded, every read_attribute and every
\* write_attribute started on a view derived from that server returns
\* INVALID_HANDLE for every handle and calls no datastore, and list_attributes
\* on such a view returns the empty sequence.
C9_ClosedServerViewsDead ==
    \A view \in views :
        view.gatt_db \in closed =>
            /\ \A h \in ModuleHandles :
                  /\ read_attribute(gatt_dbs, view, h) = AttErr("INVALID_HANDLE")
                  /\ \A data \in WriteData :
                        write_attribute(gatt_dbs, view, h, data)
                            = AttErr("INVALID_HANDLE")
            /\ list_attributes(gatt_dbs, view) = << >>

\* C9 witness: every view handed out so far is of a server that was closed,
\* a read on one of them returned INVALID_HANDLE with no datastore call in
\* flight, and another server is open.
C9_Witness ==
    /\ views # {}
    /\ \A view \in views : view.gatt_db \in closed
    /\ last.op = "read_attribute" /\ last.res = "INVALID_HANDLE"
    /\ pending = << >>
    /\ databases # EmptyMap

\* The table of the built-in services alone.
BuiltinTable == register_builtin_services(EmptyMap)

\* C17: open_gatt_server(id) for an id that is already open replaces the
\* schema stored under id with a new schema that holds only the built-in
\* services, so that every application service of the previous schema is gone
\* from the server, and the call returns an error.
C17_ReopenClobbers ==
    \A server_id \in DOMAIN databases :
        LET r == open_gatt_server(gatt_dbs, databases, next_db, server_id)
            old == databases[server_id]
            new == r.databases[server_id]
        IN  /\ r.res = "Err"
            /\ new # old
            /\ old \notin DOMAIN r.gatt_dbs
            /\ r.gatt_dbs[new] = BuiltinTable
            /\ DOMAIN r.gatt_dbs[new] = BuiltinHandles
            /\ \A other \in DOMAIN databases \ {server_id} :
                  /\ r.databases[other] = databases[other]
                  /\ r.gatt_dbs[databases[other]] = gatt_dbs[databases[other]]

\* C17 witness: an open returned an error and left its server with fewer
\* attributes than before: the schema with an application service was replaced
\* by one with the built-in services only.
C17_Witness ==
    /\ last.op = "open_gatt_server" /\ last.res = "Err" /\ last.delta < 0
    /\ \E server_id \in DOMAIN databases :
          gatt_dbs[databases[server_id]] = BuiltinTable

\* C18: close_gatt_server(id) removes the schema of id and returns Ok when id
\* is open; when id is not open it returns an error and leaves the schemas and
\* the bearers as they were.
C18_CloseServer ==
    [][last'.op = "close_gatt_server" =>
          \A server_id \in ServerIds :
              CloseGattServer(server_id) =>
                  IF server_id \in DOMAIN databases
                  THEN /\ last'.res = "Ok"
                       /\ server_id \notin DOMAIN databases'
                       /\ \A other \in DOMAIN databases \ {server_id} :
                             /\ other \in DOMAIN databases'
                             /\ databases'[other] = databases[other]
                             /\ gatt_dbs'[databases[other]]
                                    = gatt_dbs[databases[other]]
                  ELSE /\ last'.res = "Err"
                       /\ databases' = databases
                       /\ gatt_dbs' = gatt_dbs
                       /\ connections' = connections]_vars

\* C18 witness: a close of a server that is not open returned an error while
\* another server is open and a bearer is stored.
C18_Witness ==
    /\ last.op = "close_gatt_server" /\ last.res = "Err"
    /\ databases # EmptyMap
    /\ connections # EmptyMap

\* The schemas of the open servers.
Schemas == [server_id \in DOMAIN databases |-> gatt_dbs[databases[server_id]]]

\* C19: register_gatt_service and unregister_gatt_service return an error when
\* the server is not open and then change no schema of any server; when it is
\* open they return the result of add_service_with_handles and of
\* remove_service_at_handle on that server's schema, which they apply to it.
C19_ForwardToSchema ==
    [][last'.op \in {"register_gatt_service", "unregister_gatt_service"} =>
          /\ \A server_id \in ServerIds, service \in ModuleServices :
                RegisterGattService(server_id, service, "ds1") =>
                    IF server_id \notin DOMAIN databases
                    THEN last'.res = "Err" /\ Schemas' = Schemas
                    ELSE LET r == add_service_with_handles(Schemas[server_id],
                                      service, "ds1", FALSE)
                         IN  /\ last'.res = r.res
                             /\ Schemas' = [Schemas EXCEPT ![server_id] = r.attributes]
          /\ \A server_id \in ServerIds, service_handle \in ModuleHandles :
                UnregisterGattService(server_id, service_handle) =>
                    IF server_id \notin DOMAIN databases
                    THEN last'.res = "Err" /\ Schemas' = Schemas
                    ELSE LET r == remove_service_at_handle(Schemas[server_id],
                                      service_handle)
                         IN  /\ last'.res = r.res
                             /\ Schemas' = [Schemas EXCEPT ![server_id] = r.attributes]]_vars

\* C19 witness: a register_gatt_service for a server that is not open returned
\* an error while another server is open with an application service.
C19_Witness ==
    /\ last.op = "register_gatt_service" /\ last.res = "Err" /\ last.delta = 0
    /\ Cardinality(DOMAIN databases) = 1
    /\ \E server_id \in DOMAIN databases :
          DOMAIN Schemas[server_id] \ BuiltinHandles # {}

\* C20: on_le_connect(conn_id) succeeds exactly when the server conn_id names
\* is open. On success a bearer is stored under the transport index,
\* get_bearer returns it, and on_bearer_ready of the server's schema is invoked
\* exactly once, for that transport index; on failure no bearer is stored, no
\* hook is invoked, and get_bearer is unchanged.
C20_ConnectIffServerOpen ==
    \A conn_id \in ConnectionIds :
        LET r == on_le_connect(databases, connections, conn_id)
        IN  IF conn_id.server_id \in DOMAIN databases
            THEN /\ r.res = "Ok"
                 /\ get_bearer(r.connections, conn_id.tcb_idx)
                        = {get_att_database(databases[conn_id.server_id],
                                            conn_id.tcb_idx)}
                 /\ get_bearer(r.connections, conn_id.tcb_idx) = r.bearers
                 /\ r.hooks = <<[hook |-> "on_bearer_ready",
                                 gatt_db |-> databases[conn_id.server_id],
                                 tcb_idx |-> conn_id.tcb_idx]>>
            ELSE /\ r.res = "Err"
                 /\ r.bearers = {}
                 /\ r.hooks = << >>
                 /\ \A tcb_idx \in TransportIndexes :
                       get_bearer(r.connections, tcb_idx)
                           = get_bearer(connections, tcb_idx)

\* C20 witness: an on_le_connect to a server that is not open failed with no
\* hook invoked, while the bearer of an earlier connection to the open server
\* is stored.
C20_Witness ==
    /\ last = Last("on_le_connect", "Err", 0)
    /\ \E tcb_idx \in DOMAIN connections :
          connections[tcb_idx].database \in DOMAIN gatt_dbs
    /\ Cardinality(DOMAIN databases) = 1

\* C21: on_le_connect for a transport index that already has a stored bearer
\* returns an error.
C21_ConnectedTransportRejected ==
    \A conn_id \in ConnectionIds :
        conn_id.tcb_idx \in DOMAIN connections =>
            on_le_connect(databases, connections, conn_id).res = "Err"

\* C22: on_le_disconnect(tcb_idx) returns an error and changes nothing when no
\* bearer is stored under tcb_idx; otherwise it removes the bearer, so that
\* get_bearer returns None, and on_bearer_dropped(tcb_idx) of the schema is
\* invoked only after the bearer has been dropped.
C22_Disconnect ==
    \A tcb_idx \in TransportIndexes :
        LET r == on_le_disconnect(gatt_dbs, connections, tcb_idx)
        IN  IF tcb_idx \notin DOMAIN connections
            THEN /\ r.res = "Err"
                 /\ r.connections = connections
                 /\ r.events = << >>
            ELSE /\ r.res = "Ok"
                 /\ get_bearer(r.connections, tcb_idx) = {}
                 /\ \A other \in TransportIndexes \ {tcb_idx} :
                       get_bearer(r.connections, other)
                           = get_bearer(connections, other)
                 /\ \A i \in DOMAIN r.events :
                       r.events[i].event = "on_bearer_dropped" =>
                           /\ r.events[i].tcb_idx = tcb_idx
                           /\ r.events[i].gatt_db = connections[tcb_idx].database
                           /\ \E j \in 1..(i - 1) :
                                 r.events[j] = Event("drop_bearer",
                                     connections[tcb_idx].database, tcb_idx)

\* C22 witness: an on_le_disconnect removed the only bearer and invoked the
\* hook of its schema, which is still open.
C22_Witness ==
    /\ last = Last("on_le_disconnect", "Ok", 1)
    /\ connections = EmptyMap
    /\ databases # EmptyMap

\* C23: a bearer never outlives the schema it was derived from: the schema
\* of every stored bearer is live, and no bearer made from a server that was
\* closed remains stored, so get_bearer returns None for its transport index.
C23_BearerWithinSchemaLifetime ==
    \A tcb_idx \in TransportIndexes :
        \A bearer \in get_bearer(connections, tcb_idx) :
            /\ Upgrade(gatt_dbs, bearer.gatt_db) # {}
            /\ bearer.gatt_db \notin closed

\* Every bearer the events drop while its schema exists has on_bearer_dropped
\* of that schema invoked for its transport index later in the events.
DroppedAreNotified(events) ==
    \A i \in DOMAIN events :
        (events[i].event = "drop_bearer"
            /\ Upgrade(gatt_dbs, events[i].gatt_db) # {}) =>
                \E j \in (i + 1)..Len(events) :
                    events[j] = Event("on_bearer_dropped", events[i].gatt_db,
                                      events[i].tcb_idx)

\* C24: for every bearer for which on_bearer_ready was invoked, if a module
\* operation tears the bearer down while its schema is still live, then
\* on_bearer_dropped of that schema is invoked for the bearer's transport index
\* after the teardown.
C24_TeardownIsNotified ==
    /\ \A tcb_idx \in TransportIndexes :
          DroppedAreNotified(
              on_le_disconnect(gatt_dbs, connections, tcb_idx).events)
    /\ \A conn_id \in ConnectionIds :
          DroppedAreNotified(
              on_le_connect(databases, connections, conn_id).events)

\* C25: the attributes of the built-in services are in the server's schema
\* in every state in which a bearer of that server exists; no sequence of
\* register_gatt_service and unregister_gatt_service calls removes any of them.
C25_BuiltinsStay ==
    \A tcb_idx \in DOMAIN connections :
        \A attributes \in Upgrade(gatt_dbs, connections[tcb_idx].database) :
            \A h \in BuiltinHandles :
                /\ h \in DOMAIN attributes
                /\ attributes[h] = BuiltinTable[h]

(***************************************************************************)
(* DisconnectWatcher: the callbacks to call when a D-Bus client goes away. *)
(***************************************************************************)
\* The width of next_id.  It is a u32; the model counts with IdBits bits, so
\* that a run reaches the last value of the counter.
IdBits == 2
IdModulus == 2 ^ IdBits

\* The callbacks registered at any one time.
MaxCallbacks == 2

\* Bus names of clients, and the callbacks they register.
Addresses == {":1.1", ":1.2"}
Callbacks == {"cb1", "cb2"}

\* Option::None of a signal argument that is missing or not a string.
None == "None"

\* The owner arguments of NameOwnerChanged: missing, no owner, some owner.
Owners == {None, "", ":1.7"}

\* callback(arg), counted: `times` calls of the callback stored under `id`.
Call(id, callback, arg, times) ==
    [id |-> id, callback |-> callback, arg |-> arg, times |-> times]

\* HashMap::remove(key).
RemoveKey(map, key) == [k \in DOMAIN map \ {key} |-> map[k]]

\* The number of callbacks registered under all addresses.
RECURSIVE Registered(_, _)
Registered(map, addresses) ==
    IF addresses = {} THEN 0
    ELSE LET a == CHOOSE x \in addresses : TRUE
         IN  Cardinality(DOMAIN map[a]) + Registered(map, addresses \ {a})

\* self.next_id = self.next_id + 1; self.next_id.  The sum of two u32 past
\* u32::MAX panics in a build with overflow checks and wraps in one without.
get_next_id(counter, overflow_checks) ==
    LET sum == counter + 1
    IN  IF sum >= IdModulus /\ overflow_checks
        THEN [res |-> "Panic", id |-> counter, next_id |-> counter]
        ELSE [res |-> "Ok", id |-> sum % IdModulus, next_id |-> sum % IdModulus]

\* add, first statement: an address that has no entry gets an empty one.
add_entry(map, address) ==
    IF address \notin DOMAIN map
    THEN (address :> EmptyMap) @@ map
    ELSE map

\* add, the rest: the next id, then get_mut(&address).unwrap().insert(id,
\* callback) under the lock.  unwrap panics when the entry is gone, with the
\* guard alive, which poisons the mutex.
add_callback(counter, map, address, callback, overflow_checks) ==
    LET n == get_next_id(counter, overflow_checks)
    IN  IF n.res = "Panic"
        THEN [res |-> "Panic", id |-> n.id, next_id |-> n.next_id,
              callbacks |-> map, lock |-> "free"]
        ELSE IF address \notin DOMAIN map
        THEN [res |-> "Panic", id |-> n.id, next_id |-> n.next_id,
              callbacks |-> map, lock |-> "poisoned"]
        ELSE [res |-> "Ok", id |-> n.id, next_id |-> n.next_id,
              callbacks |-> [map EXCEPT ![address] = (n.id :> callback) @@ @],
              lock |-> "free"]

\* Mutex::lock() by a thread: it acquires a free mutex; on a mutex the same
\* thread holds it never returns, it blocks for ever or panics.
Relock == {"Deadlock", "Panic"}
mutex_lock(held_by_self, relock) ==
    IF held_by_self THEN relock ELSE "Acquired"

\* remove(address, target_id).  The guard of the lock() in the scrutinee of
\* the match lives to the end of the match, so the lock() of the Some arm is
\* taken by the thread that holds the mutex.
remove(map, address, target_id, relock) ==
    IF address \notin DOMAIN map
    THEN [res |-> "false", calls |-> {}, callbacks |-> map, lock |-> "free"]
    ELSE IF target_id \notin DOMAIN map[address]
    THEN [res |-> "false", calls |-> {}, callbacks |-> map, lock |-> "free"]
    ELSE LET cb == map[address][target_id]
             calls == {Call(target_id, cb, target_id, 1)}
             second == mutex_lock(TRUE, relock)
         IN  IF second = "Acquired"
             THEN [res |-> "true", calls |-> calls,
                   callbacks |-> [map EXCEPT ![address] = RemoveKey(@, target_id)],
                   lock |-> "free"]
             ELSE IF second = "Deadlock"
             THEN [res |-> "Deadlock", calls |-> calls, callbacks |-> map,
                   lock |-> "held"]
             ELSE [res |-> "Panic", calls |-> calls, callbacks |-> map,
                   lock |-> "poisoned"]

\* The handler's early returns: an argument is missing, the name had no owner
\* or has a new one, or the address is not watched.
name_owner_changed(map, addr, old, new_owner) ==
    IF addr = None \/ old = None \/ new_owner = None THEN "return"
    ELSE IF old = "" \/ new_owner # "" THEN "return"
    ELSE IF addr \notin DOMAIN map THEN "return"
    ELSE "notify"

\* A loop that hands every callback the counter's first id in place of its own.
notify_first_id(map, addr) ==
    {Call(id, map[addr][id], 1, 1) : id \in DOMAIN map[addr]}

\* for (id, callback) in callbacks_map.lock().unwrap()[&addr].iter()
\* { callback(*id); }
notify(map, addr) ==
    {Call(id, map[addr][id], id, 1) : id \in DOMAIN map[addr]}

\* callbacks_map.lock().unwrap().remove(&addr).
forget(map, addr) == RemoveKey(map, addr)

\* The variables of the attribute server, which the watcher never touches.
gatt_vars == <<gatt_dbs, views, pending, databases, connections, next_db, last,
               live, wf, closed>>

\* watcher.add(address, callback), up to the insertion of the entry.
AddEntry(address, callback) ==
    /\ caller = Idle
    /\ lock = "free"
    /\ Registered(callbacks, DOMAIN callbacks) < MaxCallbacks
    /\ callbacks' = add_entry(callbacks, address)
    /\ caller' = [pc |-> "add", address |-> address, callback |-> callback]
    /\ UNCHANGED <<next_id, lock, handler, told, issued, gatt_vars>>

\* watcher.add, from get_next_id to its return.
AddCallback(overflow_checks) ==
    /\ caller.pc = "add"
    /\ lock = "free"
    /\ LET r == add_callback(next_id, callbacks, caller.address, caller.callback,
                             overflow_checks)
       IN  /\ next_id' = r.next_id
           /\ callbacks' = r.callbacks
           /\ lock' = r.lock
           /\ caller' = IF r.res = "Ok" THEN Idle ELSE [pc |-> "panicked"]
           /\ told' = Returned("add", r.res, r.id, {})
           /\ issued' = IF r.res = "Ok" THEN issued \cup {r.id} ELSE issued
    /\ UNCHANGED <<handler, gatt_vars>>

\* watcher.remove(address, target_id).  The handler removes whole entries
\* only, so remove returns the same whether or not the handler runs between
\* its two looks at the map.
Remove(address, target_id, relock) ==
    /\ caller = Idle
    /\ lock = "free"
    /\ LET r == remove(callbacks, address, target_id, relock)
       IN  /\ callbacks' = r.callbacks
           /\ lock' = r.lock
           /\ caller' = IF r.res \in {"true", "false"} THEN Idle
                        ELSE IF r.res = "Deadlock" THEN [pc |-> "blocked"]
                        ELSE [pc |-> "panicked"]
           /\ told' = Returned("remove", r.res, target_id, r.calls)
    /\ UNCHANGED <<next_id, handler, issued, gatt_vars>>

\* A NameOwnerChanged signal arrives: the handler returns at once, or goes on
\* to call the callbacks of addr.
NameOwnerChanged(addr, old, new_owner) ==
    /\ handler = Idle
    /\ lock = "free"
    /\ IF name_owner_changed(callbacks, addr, old, new_owner) = "return"
       THEN /\ told' = Returned("signal", "return", 0, {})
            /\ UNCHANGED handler
       ELSE /\ handler' = [pc |-> "notify", addr |-> addr,
                           seen |-> DOMAIN callbacks[addr], calls |-> {}]
            /\ UNCHANGED told
    /\ UNCHANGED <<next_id, callbacks, lock, caller, issued, gatt_vars>>

\* The handler's loop over the callbacks of the address, under the lock.
Notify ==
    /\ handler.pc = "notify"
    /\ lock = "free"
    /\ handler' = [handler EXCEPT !.pc = "forget",
                                  !.calls = notify(callbacks, handler.addr)]
    /\ UNCHANGED <<next_id, callbacks, lock, caller, told, issued, gatt_vars>>

\* The handler removes the entry of the address and returns.
Forget ==
    /\ handler.pc = "forget"
    /\ lock = "free"
    /\ callbacks' = forget(callbacks, handler.addr)
    /\ handler' = Idle
    /\ told' = Returned("signal", "notified", 0, handler.calls)
    /\ UNCHANGED <<next_id, lock, caller, issued, gatt_vars>>

\* The ids remove is called with.
TargetIds == 0..(IdModulus - 1)

\* A watcher just built; no attribute server.
InitWatcher == InitModule

NextWatcher ==
    \/ \E address \in Addresses, callback \in Callbacks :
           AddEntry(address, callback)
    \/ \E overflow_checks \in BOOLEAN : AddCallback(overflow_checks)
    \/ \E address \in Addresses, target_id \in TargetIds, relock \in Relock :
           Remove(address, target_id, relock)
    \/ \E addr \in Addresses \cup {None}, old \in Owners, new_owner \in Owners :
           NameOwnerChanged(addr, old, new_owner)
    \/ Notify
    \/ Forget

SpecWatcher == InitWatcher /\ [][NextWatcher]_vars

(***************************************************************************)
(* Claims about the watcher, under SpecWatcher.                            *)
(***************************************************************************)
\* C26: remove(address, id) returns in every state of the watcher: when a
\* callback is registered under address with that id, it calls the callback
\* exactly once with id, removes it and returns true; otherwise it returns
\* false, calls nothing and removes nothing.
C26_RemoveReturns ==
    [][told'.op = "remove" =>
        \A address \in Addresses, target_id \in TargetIds, relock \in Relock :
            Remove(address, target_id, relock) =>
                IF address \in DOMAIN callbacks
                   /\ target_id \in DOMAIN callbacks[address]
                THEN /\ told'.res = "true"
                     /\ told'.calls = {Call(target_id,
                                            callbacks[address][target_id],
                                            target_id, 1)}
                     /\ callbacks' = [callbacks EXCEPT ![address] =
                                          RemoveKey(@, target_id)]
                ELSE /\ told'.res = "false"
                     /\ told'.calls = {}
                     /\ callbacks' = callbacks]_vars

\* C27: when the handler is told that a watched address lost its owner, it
\* calls every callback registered under the address exactly once with its
\* own id, and then removes the entry of the address, so that a later signal
\* for the address finds it unwatched; a signal whose old owner is empty,
\* whose new owner is not, or whose address is unwatched calls no callback
\* and removes nothing.
C27_DisconnectNotifiesOnce ==
    [][/\ \A addr \in Addresses \cup {None}, old \in Owners, new_owner \in Owners :
              NameOwnerChanged(addr, old, new_owner) =>
                  IF old \notin {None, ""} /\ new_owner = ""
                     /\ addr \in DOMAIN callbacks
                  THEN /\ handler'.pc = "notify"
                       /\ handler'.addr = addr
                  ELSE /\ handler' = Idle
                       /\ told'.res = "return"
                       /\ told'.calls = {}
                       /\ callbacks' = callbacks
       /\ Notify =>
              /\ \A id \in handler.seen :
                     \E c \in handler'.calls :
                         c.id = id /\ c.arg = id /\ c.times = 1
              /\ \A c \in handler'.calls :
                     /\ c.id \in DOMAIN callbacks[handler.addr]
                     /\ c.callback = callbacks[handler.addr][c.id]
                     /\ c.arg = c.id
                     /\ c.times = 1
                     /\ \A other \in handler'.calls : other.id = c.id => other = c
              /\ callbacks' = callbacks
       /\ Forget =>
              /\ told'.calls = handler.calls
              /\ handler.addr \notin DOMAIN callbacks'
              /\ \A old \in Owners, new_owner \in Owners :
                     name_owner_changed(callbacks', handler.addr, old, new_owner)
                         = "return"]_vars

\* A disconnect of an address with two callbacks has been handled.
C27_Witness ==
    /\ told.op = "signal"
    /\ told.res = "notified"
    /\ Cardinality(told.calls) = 2
    /\ handler = Idle

\* C28: an id that add returns differs from every id an earlier add on the
\* watcher returned, whatever the addresses.
C28_FreshId ==
    [][told'.op = "add" =>
        \A overflow_checks \in BOOLEAN :
            AddCallback(overflow_checks) /\ told'.res = "Ok" =>
                told'.id \notin issued]_vars

(***************************************************************************)
(* The size of a service in the schema, under Spec.                        *)
(***************************************************************************)
\* The number of attributes add_service(service, datastore) adds to the
\* table.
AddedCount(attributes, service, datastore) ==
    Delta(attributes,
          add_service_with_handles(attributes, service, datastore, FALSE).attributes)

\* C29 as stated: a successful add_service of a service with n
\* characteristics and d descriptors adds 1 + 3n + d attributes.
C29_AddCountAsStated ==
    \A service \in SchemaServices, datastore \in Datastores :
        add_service_with_handles(TestTable, service, datastore, FALSE).res = "Ok" =>
            AddedCount(TestTable, service, datastore)
                = 1 + 3 * Len(service.characteristics)
                    + DescriptorCount(service.characteristics)

\* C29 as amended: a successful add_service of a service with n
\* characteristics and d descriptors adds 1 + 2n + d attributes: the service
\* declaration, a declaration and a value per characteristic, and the
\* descriptors.
C29_AddCount ==
    \A service \in SchemaServices, datastore \in Datastores :
        add_service_with_handles(TestTable, service, datastore, FALSE).res = "Ok" =>
            AddedCount(TestTable, service, datastore)
                = 1 + 2 * Len(service.characteristics)
                    + DescriptorCount(service.characteristics)

\* C29 witness: a well-formed service with one characteristic and one
\* descriptor was added, and the table grew by four.
C29_Witness ==
    /\ last.op = "add_service" /\ last.res = "Ok" /\ last.delta = 4
    /\ wf
    /\ \E s \in live : s.n = 1 /\ s.d = 1

LowHandles == 0..2

\* Every service description over the low handles: among them those with a
\* characteristic whose value handle is 0.
LowServices ==
    ServicesOver(LowHandles, {CHARACTERISTIC_TYPE}, {{READABLE}})

\* The handles remove_service is called with: the low ones, and the handle a
\* wrapped subtraction gives the declaration of a characteristic at 0.
LowRequestHandles == LowHandles \cup {HandleModulus - 1}

NextLow ==
    \/ \E service \in LowServices :
          AddService(TestDb, service, "ds1")
    \/ \E service_handle \in LowRequestHandles :
          RemoveService(TestDb, service_handle)
    \/ \E view \in views : ListAttributes(view)

SpecLow == Init /\ [][NextLow]_vars

\* C31: add_service returns Ok or the duplicate-handle error for every
\* service description, one with a characteristic at value handle 0
\* included: it never aborts.
C31_AddNeverAborts ==
    last.op = "add_service" => last.res \in {"Ok", "Err"}

(***************************************************************************)
(* The declarations add_service builds, for every permission.              *)
(***************************************************************************)
\* Every value of AttPermissions over READABLE, WRITABLE and INDICATE.
AllPermissions == SUBSET {READABLE, WRITABLE, INDICATE}

\* The UUIDs an application gives its characteristics.
CharacteristicTypes == {CHARACTERISTIC_TYPE, DESCRIPTOR_TYPE}

\* The handles of these services.
MaxDeclaredHandle == 3
DeclaredHandles == 1..MaxDeclaredHandle

\* Services of at most one characteristic without descriptors, in every
\* layout of handles, of every type and permission.
DeclaredServices ==
    {[handle |-> h, type_ |-> SERVICE_TYPE, characteristics |-> cs] :
        h \in DeclaredHandles,
        cs \in CharacteristicListsOver(DeclaredHandles, CharacteristicTypes,
                                       AllPermissions, 1, 2)}

NextDeclared ==
    \/ \E service \in DeclaredServices :
          AddService(TestDb, service, "ds1")
    \/ \E service_handle \in 0..MaxDeclaredHandle :
          RemoveService(TestDb, service_handle)
    \/ \E view \in views : ListAttributes(view)

SpecDeclared == Init /\ [][NextDeclared]_vars

\* C32: every static attribute of the table is a service declaration or a
\* characteristic declaration, of the type of its kind and readable and
\* nothing else, whatever the permissions of the characteristic; a
\* characteristic declaration is at the handle one below the value handle it
\* announces, and every characteristic installed has its declaration there.
C32_StaticAreDeclarations ==
    /\ \A h \in DOMAIN TestTable :
          LET attr == TestTable[h]
          IN  attr.value.kind = "Static" =>
                  /\ attr.attribute.permissions = {READABLE}
                  /\ \/ /\ attr.attribute.type_ = PRIMARY_SERVICE_DECLARATION_UUID
                        /\ attr.value.data.decl = "GattServiceDeclarationValue"
                     \/ /\ attr.attribute.type_ = CHARACTERISTIC_UUID
                        /\ attr.value.data.decl = "GattCharacteristicDeclarationValue"
                        /\ h = (attr.value.data.handle - 1) % HandleModulus
    /\ \A h \in DOMAIN TestTable :
          TestTable[h].value.kind = "DynamicCharacteristic" =>
              /\ (h - 1) % HandleModulus \in DOMAIN TestTable
              /\ TestTable[(h - 1) % HandleModulus].value.kind = "Static"
              /\ TestTable[(h - 1) % HandleModulus].attribute.type_
                     = CHARACTERISTIC_UUID

\* C32 witness: a characteristic that is writable and not readable is
\* installed, and its declaration below it is static.
C32_Witness ==
    \E h \in DOMAIN TestTable :
        /\ TestTable[h].value.kind = "DynamicCharacteristic"
        /\ TestTable[h].attribute.permissions = {WRITABLE}
        /\ h - 1 \in DOMAIN TestTable
        /\ TestTable[h - 1].value.kind = "Static"
        /\ last.op = "add_service" /\ last.res = "Ok" /\ last.delta = 3

\* The properties a declaration announces for a characteristic of the given
\* permissions.
PropertiesOf(permissions) ==
    [broadcast |-> 0,
     read |-> IF READABLE \in permissions THEN 1 ELSE 0,
     write_without_response |-> 0,
     write |-> IF WRITABLE \in permissions THEN 1 ELSE 0,
     notify |-> 0,
     indicate |-> IF INDICATE \in permissions THEN 1 ELSE 0,
     authenticated_signed_writes |-> 0,
     extended_properties |-> 0]

\* C33: after a successful add_service, the declaration of each of its
\* characteristics has the static value whose read, write and indicate flags
\* are those of the characteristic's permissions, whose five other flags are
\* 0, whose handle is the value handle and whose UUID is the
\* characteristic's type.
C33_DeclarationValue ==
    [][(last'.op = "add_service" /\ last'.res = "Ok") =>
        \A service \in DeclaredServices :
            AddService(TestDb, service, "ds1") =>
                \A i \in DOMAIN service.characteristics :
                    LET c == service.characteristics[i]
                        declaration == gatt_dbs'[TestDb][c.handle - 1]
                    IN  /\ declaration.value.kind = "Static"
                        /\ declaration.value.data.properties
                               = PropertiesOf(c.permissions)
                        /\ declaration.value.data.handle = c.handle
                        /\ declaration.value.data.uuid = c.type_]_vars

\* C33 witness: a characteristic that may be indicated and written, and not
\* read, is installed below a declaration that says so.
C33_Witness ==
    /\ last.op = "add_service" /\ last.res = "Ok"
    /\ \E h \in DOMAIN TestTable :
          /\ TestTable[h].value.kind = "DynamicCharacteristic"
          /\ TestTable[h].attribute.permissions = {WRITABLE, INDICATE}
          /\ TestTable[h].attribute.type_ = DESCRIPTOR_TYPE
          /\ h - 1 \in DOMAIN TestTable
          /\ TestTable[h - 1].value.kind = "Static"
          /\ TestTable[h - 1].value.data.properties.indicate = 1
          /\ TestTable[h - 1].value.data.properties.read = 0

(***************************************************************************)
(* Requests suspended while their attribute goes away, under SpecModule.   *)
(***************************************************************************)
\* The attribute of the i-th suspended request is not in a schema any more:
\* its service was removed, or its server closed or opened again.
AttributeGone(i) ==
    LET db == Upgrade(gatt_dbs, pending[i].view.gatt_db)
    IN  \/ db = {}
        \/ \A attributes \in db : pending[i].call.handle \notin DOMAIN attributes

\* C34: a read or write that awaits its datastore returns the datastore's
\* answer, the same bytes or the same error code, also when its attribute was
\* removed or its server closed while it was suspended; it does not return
\* INVALID_HANDLE.
C34_SuspendedRequestCompletes ==
    [][\A i \in 1..MaxPending, answer \in AllAnswers :
          (DatastoreReply(i, answer) /\ AttributeGone(i)) =>
              /\ last'.op = (IF pending[i].call.op = "read" THEN "read_attribute"
                             ELSE "write_attribute")
              /\ last'.res = (IF answer.res = "Ok" THEN "Ok" ELSE answer.code)
              /\ last'.data = (IF answer.res = "Ok" THEN answer.data ELSE "none")
              /\ last'.res # "INVALID_HANDLE"]_vars

\* C34 witness: a read returned a value of its datastore although the server
\* of every view had been closed by then.
C34_Witness ==
    /\ last = LastData("read_attribute", "Ok", 1, "v1")
    /\ views # {}
    /\ \A view \in views : Upgrade(gatt_dbs, view.gatt_db) = {}
    /\ closed # {}

(***************************************************************************)
(* Bearers across a second open of their server, under SpecModule.         *)
(***************************************************************************)
\* The view answers as one whose schema is gone.
DeadView(dbs, view) ==
    /\ \A h \in ModuleHandles :
          /\ read_attribute(dbs, view, h) = AttErr("INVALID_HANDLE")
          /\ \A data \in WriteData :
                write_attribute(dbs, view, h, data) = AttErr("INVALID_HANDLE")
    /\ list_attributes(dbs, view) = << >>

\* C35: open_gatt_server(id) for an id that is open leaves the bearers of id
\* stored, each with a view of the schema the call discarded: its reads and
\* writes return INVALID_HANDLE and its list is empty, also after a service is
\* added to id, which a bearer connected after the call does list.
C35_ReopenStrandsBearers ==
    /\ \A tcb_idx \in DOMAIN connections :
          Upgrade(gatt_dbs, connections[tcb_idx].database) = {} =>
              DeadView(gatt_dbs, connections[tcb_idx].bearer)
    /\ \A server_id \in DOMAIN databases :
          LET r == open_gatt_server(gatt_dbs, databases, next_db, server_id)
              new == r.databases[server_id]
          IN  \A tcb_idx \in DOMAIN connections :
                  connections[tcb_idx].database = databases[server_id] =>
                      LET bearer == connections[tcb_idx].bearer
                          after == on_le_connect(r.databases, connections,
                                                 [server_id |-> server_id,
                                                  tcb_idx |-> tcb_idx])
                      IN  /\ get_bearer(connections, tcb_idx) = {bearer}
                          /\ DeadView(r.gatt_dbs, bearer)
                          /\ \A service \in ModuleServices :
                                LET added == add_service_with_handles(
                                                 r.gatt_dbs[new], service, "ds1",
                                                 FALSE)
                                    dbs == [r.gatt_dbs EXCEPT ![new] =
                                                added.attributes]
                                IN  /\ added.res = "Ok"
                                    /\ DeadView(dbs, bearer)
                                    /\ \A later \in after.bearers :
                                          {list_attributes(dbs, later)[i].handle :
                                              i \in DOMAIN list_attributes(dbs, later)}
                                              = BuiltinHandles
                                                  \cup InstallHandles(service)

\* C35 witness: a second open of a server failed while a bearer of that
\* server was connected; the bearer is still stored and its schema is gone.
C35_Witness ==
    /\ last.op = "open_gatt_server" /\ last.res = "Err"
    /\ \E tcb_idx \in DOMAIN connections :
          /\ Upgrade(gatt_dbs, connections[tcb_idx].database) = {}
          /\ connections[tcb_idx].database \notin closed
    /\ databases # EmptyMap

(***************************************************************************)
(* add interleaved with the handler, under SpecWatcher.                    *)
(***************************************************************************)
\* C36: the entry of the address that add created or found is in the map
\* when add inserts the callback into it, in every interleaving with the
\* handler: the unwrap of get_mut(&address) in add does not panic.
C36_AddFindsItsEntry ==
    /\ caller.pc = "add" => caller.address \in DOMAIN callbacks
    /\ ~(told.op = "add" /\ told.res = "Panic" /\ lock = "poisoned")

====
